---- MODULE Spec2Model ----
(***************************************************************************)
(* Model of Source/astcenc_color_quantize.cpp: the colour endpoint         *)
(* quantizer of the ASTC encoder (pack_color_endpoints and the per-format  *)
(* quantization attempts it dispatches to).                                *)
(*                                                                         *)
(* Arithmetic.  The source computes in 32-bit floats.  The model takes     *)
(* colour components that are integers (floats with an integral value)     *)
(* and computes every intermediate value as an exact rational, carried as  *)
(* an integer numerator over a denominator fixed by the code path (257     *)
(* for the LDR scale 1/257, 771 for a luminance, 2570 for the biased       *)
(* value of quantize_rgb, a power of two for the HDR mode scales).  For    *)
(* integral inputs no rounding decision of the source falls on a tie of    *)
(* the exact value (the numerators are odd where the denominators are      *)
(* even), and the distance to the nearest tie exceeds the float rounding   *)
(* error, so the float result and the exact result agree.                  *)
(***************************************************************************)
EXTENDS Integers, Sequences, FiniteSets, TLC

(***************************************************************************)
(* Bit operations of the source on int, by arithmetic.  x \div 2^k is the  *)
(* arithmetic shift x >> k and x % 2^k is x & (2^k - 1), also for a        *)
(* negative x in two's complement.                                         *)
(***************************************************************************)
Pow2(k) == <<1, 2, 4, 8, 16, 32, 64, 128, 256, 512, 1024, 2048, 4096>>[k + 1]

\* x & (2^k - 1)
LowBits(x, k) == x % Pow2(k)

\* x & ~(2^k - 1)
ClearLow(x, k) == x - (x % Pow2(k))

\* (x >> k) & 1
BitAt(x, k) == (x \div Pow2(k)) % 2

\* x & mask for the byte masks 0xC0, 0xE0, 0xF0, 0xF8, 0x80: the top n bits of the low byte
TopBits(x, n) == (x % 256) - (x % Pow2(8 - n))

\* x | 0x80 for x >= 0
Or80(x) == IF BitAt(x, 7) = 1 THEN x ELSE x + 128

Clamp(x, lo, hi) == IF x < lo THEN lo ELSE IF x > hi THEN hi ELSE x

MAX(a, b) == IF a > b THEN a ELSE b

Abs(x) == IF x < 0 THEN -x ELSE x

(***************************************************************************)
(* Numeric helpers (astc::clamp255f, astc::flt2int_rtn, astc::flt2int_rd). *)
(* A float x is the rational num / den with den > 0.                       *)
(***************************************************************************)
\* clamp255f(x): the numerator of min(max(x, 0), 255)
clamp255f(num, den) == Clamp(num, 0, 255 * den)

\* flt2int_rtn(x) = floor(x + 0.5)
flt2int_rtn(num, den) == (2 * num + den) \div (2 * den)

\* flt2int_rd(x) = floor(x)
flt2int_rd(num, den) == num \div den

(***************************************************************************)
(* The quantization tables color_quantization_tables[21][256] and          *)
(* color_unquantization_tables[21][256].  Level L has N(L) codewords; a    *)
(* codeword q unquantizes to the ASTC endpoint value of its trit, quint    *)
(* and bit fields, and a byte v quantizes to the codeword of the nearest   *)
(* endpoint value.                                                         *)
(***************************************************************************)
NumLevels == 21

Levels == 0 .. (NumLevels - 1)

\* "b": bits only; "t": one trit and bits; "q": one quint and bits
QuantKind(L) ==
    << "b", "t", "b", "q", "t", "b", "q", "t", "b", "q", "t",
       "b", "q", "t", "b", "q", "t", "b", "q", "t", "b" >>[L + 1]

QuantBits(L) ==
    << 1, 0, 2, 0, 1, 3, 1, 2, 4, 2, 3, 5, 3, 4, 6, 4, 5, 7, 5, 6, 8 >>[L + 1]

\* N(L): the number of codewords of level L
QuantCount(L) ==
    (CASE QuantKind(L) = "b" -> 1 [] QuantKind(L) = "t" -> 3 [] OTHER -> 5) * Pow2(QuantBits(L))

UnquantBitsOnly(n, q) ==
    CASE n = 1 -> q * 255
      [] n = 2 -> q * 85
      [] n = 3 -> q * 32 + q * 4 + (q \div 2)
      [] n = 4 -> q * 17
      [] n = 5 -> q * 8 + (q \div 4)
      [] n = 6 -> q * 4 + (q \div 16)
      [] n = 7 -> q * 2 + (q \div 64)
      [] OTHER -> q

TritC(n) == << 204, 93, 44, 22, 11, 5 >>[n]

QuintC(n) == << 113, 54, 26, 13, 6 >>[n]

TritB(n, m) ==
    LET b == BitAt(m, 1)  c == BitAt(m, 2)  d == BitAt(m, 3)
        e == BitAt(m, 4)  f == BitAt(m, 5)
    IN CASE n = 1 -> 0
         [] n = 2 -> 278 * b
         [] n = 3 -> 266 * c + 133 * b
         [] n = 4 -> 260 * d + 130 * c + 65 * b
         [] n = 5 -> 258 * e + 129 * d + 64 * c + 32 * b
         [] OTHER -> 257 * f + 128 * e + 64 * d + 32 * c + 16 * b

QuintB(n, m) ==
    LET b == BitAt(m, 1)  c == BitAt(m, 2)  d == BitAt(m, 3)  e == BitAt(m, 4)
    IN CASE n = 1 -> 0
         [] n = 2 -> 268 * b
         [] n = 3 -> 261 * c + 130 * b
         [] n = 4 -> 258 * d + 129 * c + 64 * b
         [] OTHER -> 257 * e + 128 * d + 64 * c + 32 * b

\* the endpoint value of codeword q = D * 2^n + m (D the trit or quint, m the n bits)
UnquantValue(L, q) ==
    LET k == QuantKind(L)
        n == QuantBits(L)
        D == q \div Pow2(n)
        m == q % Pow2(n)
        T == IF k = "t" THEN D * TritC(n) + TritB(n, m) ELSE D * QuintC(n) + QuintB(n, m)
    IN CASE k = "b" -> UnquantBitsOnly(n, q)
         [] k = "t" /\ n = 0 -> << 0, 128, 255 >>[q + 1]
         [] k = "q" /\ n = 0 -> << 0, 64, 128, 192, 255 >>[q + 1]
         [] OTHER -> IF m % 2 = 1 THEN 128 + ((511 - T) \div 4) ELSE T \div 4

\* the content of color_unquantization_tables: row L is defined on the codewords of L
UnquantTables ==
    [L \in Levels |-> [q \in 0 .. (QuantCount(L) - 1) |-> UnquantValue(L, q)]]

\* the codeword of endpoint value u in the row of a level, -1 when u is no endpoint value
codeword_of(row, u) ==
    IF \E q \in DOMAIN row : row[q] = u THEN CHOOSE q \in DOMAIN row : row[q] = u ELSE -1

CodewordOf == [L \in Levels |-> [u \in 0 .. 255 |-> codeword_of(UnquantTables[L], u)]]

\* the distance from v to the nearest endpoint value; cw is the row of CodewordOf
nearest_distance(cw, v) ==
    CHOOSE d \in 0 .. 255 :
        /\ \E x \in { v - d, v + d } \cap (0 .. 255) : cw[x] >= 0
        /\ \A e \in 0 .. (d - 1) : \A x \in { v - e, v + e } \cap (0 .. 255) : cw[x] < 0

\* the codeword at distance d of v, the upper one when there are two and up holds
nearest_at(cw, v, d, up) ==
    IF v + d <= 255 /\ cw[v + d] >= 0 /\ (up \/ v - d < 0 \/ cw[v - d] < 0)
    THEN cw[v + d]
    ELSE cw[v - d]

\* the codeword nearest to v; up decides a tie between two endpoint values
Nearest(cw, v, up) == nearest_at(cw, v, nearest_distance(cw, v), up)

\* the content of color_quantization_tables, for each way of deciding a tie
QuantTables ==
    [up \in BOOLEAN |-> [L \in Levels |-> [v \in 0 .. 255 |-> Nearest(CodewordOf[L], v, up)]]]

VARIABLES
    color_quantization_tables,      \* [21][256], constant during a call
    color_unquantization_tables,    \* [21][256], constant during a call
    pc,                 \* position of the call in pack_color_endpoints
    format,             \* requested format
    quantization_level,
    color0, color1, rgbs_color, rgbo_color,
    output,             \* the caller's out-buffer, slots 0..7
    retval,             \* the returned format tag
    written,            \* slots of output written so far by the call
    reads,              \* indices at which color_quantization_tables was read so far
    tried,              \* the attempts run so far, in order, each with its return value
    guard,              \* the locals of a retain-top-bits guard run on its own
    loop,               \* the locals of quantize_rgb run one pass of its loop at a time
    other               \* a second caller's call, parked while this one runs

tables == << color_quantization_tables, color_unquantization_tables >>

vars == << tables, pc, format, quantization_level, color0, color1, rgbs_color, rgbo_color,
           output, retval, written, reads, tried, guard, loop, other >>

\* a table read; an index outside the array is undefined behaviour: the index is recorded
\* in reads by the caller and the value read is unspecified
OutOfBounds == -1

Quant(L, v) == IF v \in 0 .. 255 THEN color_quantization_tables[L][v] ELSE OutOfBounds

Unquant(L, q) ==
    IF q \in DOMAIN color_unquantization_tables[L]
    THEN color_unquantization_tables[L][q]
    ELSE OutOfBounds


(***************************************************************************)
(* Colours are records [r, g, b, a] of integers.  The a component of       *)
(* rgbs_color is the desired scale, a fraction: its numerator over         *)
(* ScaleDen.                                                               *)
(***************************************************************************)
float4(r, g, b, a) == [r |-> r, g |-> g, b |-> b, a |-> a]

ScaleDen == 16

\* what an attempt did: ok (its return value; TRUE for the encoders that cannot fail),
\* w (the slots of output it wrote, with the values), rd (the indices at which it read
\* color_quantization_tables)
Result(ok, w, rd) == [ok |-> ok, w |-> w, rd |-> rd]

NoWrites == << >>

\* faulty variant: cqt_lookup without its two clamps
cqt_index_unclamped(value) == value

cqt_index(value) == IF value < 0 THEN 0 ELSE IF value > 255 THEN 255 ELSE value

cqt_lookup(L, value) == Quant(L, cqt_index(value))

\* faulty variant: a loop that moves rgb0_addon and rgb1_addon by 0.1 a pass
quantize_rgb_pass_with_half_step(r0, g0, b0, r1, g1, b1, L, iters) ==
    LET lo(x) == flt2int_rd(10 * x + 257 * (5 - iters), 2570)
        hi(x) == flt2int_rd(10 * x + 257 * (5 + iters), 2570)
        ri0 == cqt_lookup(L, lo(r0))
        gi0 == cqt_lookup(L, lo(g0))
        bi0 == cqt_lookup(L, lo(b0))
        ri1 == cqt_lookup(L, hi(r1))
        gi1 == cqt_lookup(L, hi(g1))
        bi1 == cqt_lookup(L, hi(b1))
    IN [ w |-> (0 :> ri0) @@ (1 :> ri1) @@ (2 :> gi0) @@ (3 :> gi1) @@ (4 :> bi0) @@ (5 :> bi1),
         rd |-> { cqt_index(lo(r0)), cqt_index(lo(g0)), cqt_index(lo(b0)),
                  cqt_index(hi(r1)), cqt_index(hi(g1)), cqt_index(hi(b1)) },
         iters |-> iters + 1,
         again |-> Unquant(L, ri0) + Unquant(L, gi0) + Unquant(L, bi0)
                     > Unquant(L, ri1) + Unquant(L, gi1) + Unquant(L, bi1) ]

\* faulty variant: a pass that leaves rgb0_addon and rgb1_addon as they are
quantize_rgb_pass_without_bias(r0, g0, b0, r1, g1, b1, L, iters) ==
    LET ri0 == cqt_lookup(L, flt2int_rd(2 * r0 + 257, 514))
        gi0 == cqt_lookup(L, flt2int_rd(2 * g0 + 257, 514))
        bi0 == cqt_lookup(L, flt2int_rd(2 * b0 + 257, 514))
        ri1 == cqt_lookup(L, flt2int_rd(2 * r1 + 257, 514))
        gi1 == cqt_lookup(L, flt2int_rd(2 * g1 + 257, 514))
        bi1 == cqt_lookup(L, flt2int_rd(2 * b1 + 257, 514))
    IN [ w |-> (0 :> ri0) @@ (1 :> ri1) @@ (2 :> gi0) @@ (3 :> gi1) @@ (4 :> bi0) @@ (5 :> bi1),
         rd |-> { cqt_index(flt2int_rd(2 * r0 + 257, 514)), cqt_index(flt2int_rd(2 * g0 + 257, 514)),
                  cqt_index(flt2int_rd(2 * b0 + 257, 514)), cqt_index(flt2int_rd(2 * r1 + 257, 514)),
                  cqt_index(flt2int_rd(2 * g1 + 257, 514)), cqt_index(flt2int_rd(2 * b1 + 257, 514)) },
         iters |-> iters,
         again |-> Unquant(L, ri0) + Unquant(L, gi0) + Unquant(L, bi0)
                     > Unquant(L, ri1) + Unquant(L, gi1) + Unquant(L, bi1) ]

\* one pass of the do-while loop of quantize_rgb with the biases 0.5 - 0.2 * iters and
\* 0.5 + 0.2 * iters; r0 .. b1 are numerators over 257
quantize_rgb_pass(r0, g0, b0, r1, g1, b1, L, iters) ==
    LET lo(x) == flt2int_rd(10 * x + 257 * (5 - 2 * iters), 2570)
        hi(x) == flt2int_rd(10 * x + 257 * (5 + 2 * iters), 2570)
        ri0 == cqt_lookup(L, lo(r0))
        gi0 == cqt_lookup(L, lo(g0))
        bi0 == cqt_lookup(L, lo(b0))
        ri1 == cqt_lookup(L, hi(r1))
        gi1 == cqt_lookup(L, hi(g1))
        bi1 == cqt_lookup(L, hi(b1))
    IN [ w |-> (0 :> ri0) @@ (1 :> ri1) @@ (2 :> gi0) @@ (3 :> gi1) @@ (4 :> bi0) @@ (5 :> bi1),
         rd |-> { cqt_index(lo(r0)), cqt_index(lo(g0)), cqt_index(lo(b0)),
                  cqt_index(hi(r1)), cqt_index(hi(g1)), cqt_index(hi(b1)) },
         iters |-> iters + 1,
         again |-> Unquant(L, ri0) + Unquant(L, gi0) + Unquant(L, bi0)
                     > Unquant(L, ri1) + Unquant(L, gi1) + Unquant(L, bi1) ]

\* from this pass on the first endpoint reads index 0 of the table, whatever the colour
LastRgbPass == (10 * 65535 + 5 * 257) \div (2 * 257) + 1

\* faulty variant: quantize_rgb leaving its loop after the first pass
quantize_rgb_single_pass(r0, g0, b0, r1, g1, b1, L) == 0

\* the number of the pass at which the do-while loop of quantize_rgb leaves: the first one
\* whose sums are in order
quantize_rgb_last(r0, g0, b0, r1, g1, b1, L) ==
    CHOOSE i \in 0 .. LastRgbPass :
        /\ ~quantize_rgb_pass(r0, g0, b0, r1, g1, b1, L, i).again
        /\ \A j \in 0 .. (i - 1) : quantize_rgb_pass(r0, g0, b0, r1, g1, b1, L, j).again

\* the do-while loop of quantize_rgb and the writes that follow it
quantize_rgb_loop(r0, g0, b0, r1, g1, b1, L, last) ==
    [ ok |-> TRUE,
      w |-> quantize_rgb_pass(r0, g0, b0, r1, g1, b1, L, last).w,
      rd |-> UNION { quantize_rgb_pass(r0, g0, b0, r1, g1, b1, L, j).rd : j \in 0 .. last },
      iters |-> last + 1 ]

quantize_rgb_scaled(r0, g0, b0, r1, g1, b1, L) ==
    quantize_rgb_loop(r0, g0, b0, r1, g1, b1, L, quantize_rgb_last(r0, g0, b0, r1, g1, b1, L))

quantize_rgb(c0, c1, L) ==
    quantize_rgb_scaled(clamp255f(c0.r, 257), clamp255f(c0.g, 257), clamp255f(c0.b, 257),
                        clamp255f(c1.r, 257), clamp255f(c1.g, 257), clamp255f(c1.b, 257), L)

\* what res did and, besides, the writes w and the table reads rd
Also(res, w, rd) == [res EXCEPT !.w = @ @@ w, !.rd = @ \cup rd]

\* the alpha pair of quantize_rgba, try_quantize_rgba_blue_contract, quantize_rgbs_alpha_new
\* and quantize_hdr_rgb_ldr_alpha3: the table indices of the two alphas
alpha_index(c) == flt2int_rtn(clamp255f(c.a, 257), 257)

quantize_rgba(c0, c1, L) ==
    Also(quantize_rgb(c0, c1, L),
         (6 :> Quant(L, alpha_index(c0))) @@ (7 :> Quant(L, alpha_index(c1))),
         { alpha_index(c0), alpha_index(c1) })

\* faulty variant: a blue-contract attempt that lets equal sums pass its order test
rgb_blue_contract_quantize_equal_sums(r0, g0, b0, r1, g1, b1, L) ==
    IF Unquant(L, Quant(L, r1)) + Unquant(L, Quant(L, g1)) + Unquant(L, Quant(L, b1))
         < Unquant(L, Quant(L, r0)) + Unquant(L, Quant(L, g0)) + Unquant(L, Quant(L, b0))
    THEN Result(FALSE, NoWrites, { r0, g0, b0, r1, g1, b1 })
    ELSE Result(TRUE,
                (0 :> Quant(L, r1)) @@ (1 :> Quant(L, r0)) @@ (2 :> Quant(L, g1))
                    @@ (3 :> Quant(L, g0)) @@ (4 :> Quant(L, b1)) @@ (5 :> Quant(L, b0)),
                { r0, g0, b0, r1, g1, b1 })

\* try_quantize_rgb_blue_contract from "quantize the inverse-blue-contracted color" on;
\* r0 .. b1 are the table indices
rgb_blue_contract_quantize(r0, g0, b0, r1, g1, b1, L) ==
    IF Unquant(L, Quant(L, r1)) + Unquant(L, Quant(L, g1)) + Unquant(L, Quant(L, b1))
         <= Unquant(L, Quant(L, r0)) + Unquant(L, Quant(L, g0)) + Unquant(L, Quant(L, b0))
    THEN Result(FALSE, NoWrites, { r0, g0, b0, r1, g1, b1 })
    ELSE Result(TRUE,
                (0 :> Quant(L, r1)) @@ (1 :> Quant(L, r0)) @@ (2 :> Quant(L, g1))
                    @@ (3 :> Quant(L, g0)) @@ (4 :> Quant(L, b1)) @@ (5 :> Quant(L, b0)),
                { r0, g0, b0, r1, g1, b1 })

\* try_quantize_rgb_blue_contract from the range test on; r0 .. b1 are the contracted
\* components, numerators over 257
rgb_blue_contract_scaled(r0, g0, b0, r1, g1, b1, L) ==
    IF \E x \in { r0, g0, b0, r1, g1, b1 } : x < 0 \/ x > 255 * 257
    THEN Result(FALSE, NoWrites, {})
    ELSE rgb_blue_contract_quantize(flt2int_rtn(r0, 257), flt2int_rtn(g0, 257),
                                    flt2int_rtn(b0, 257), flt2int_rtn(r1, 257),
                                    flt2int_rtn(g1, 257), flt2int_rtn(b1, 257), L)

try_quantize_rgb_blue_contract(c0, c1, L) ==
    rgb_blue_contract_scaled(c0.r + (c0.r - c0.b), c0.g + (c0.g - c0.b), c0.b,
                             c1.r + (c1.r - c1.b), c1.g + (c1.g - c1.b), c1.b, L)

try_quantize_rgba_blue_contract(c0, c1, L) ==
    Also(try_quantize_rgb_blue_contract(c0, c1, L),
         (7 :> Quant(L, alpha_index(c0))) @@ (6 :> Quant(L, alpha_index(c1))),
         { alpha_index(c0), alpha_index(c1) })

(***************************************************************************)
(* Delta encodings.  delta_channel is the pipeline of one channel, as      *)
(* try_quantize_alpha_delta writes it out for alpha and                    *)
(* try_quantize_rgb_delta, try_quantize_rgb_delta_blue_contract and        *)
(* try_quantize_luminance_alpha_delta repeat it per channel; v0 and v1     *)
(* are the rounded bytes of endpoint 0 and endpoint 1.                     *)
(***************************************************************************)
\* the base: the byte of endpoint 0 as unorm9, its low 8 bits through the tables
delta_base(v0, L) ==
    [ base_index |-> LowBits(v0 * 2, 8),
      a0be |-> Quant(L, LowBits(v0 * 2, 8)),
      a0b |-> Unquant(L, Quant(L, LowBits(v0 * 2, 8))) + 256 * BitAt(v0 * 2, 8) ]

\* faulty variant: the checks on the offset without the test of the top two bits
delta_decode_without_flip_test(base, a1d, packed, a1de, a1du) ==
    LET low7 == LowBits(a1du, 7)
        offset == IF BitAt(low7, 6) = 1 THEN low7 - 128 ELSE low7
    IN [ base_index |-> base.base_index,
         a0be |-> base.a0be,
         a0b |-> base.a0b,
         a1d |-> a1d,
         too_large |-> (a1d > 63 \/ a1d < -64),
         packed |-> packed,
         a1de |-> a1de,
         flipped |-> FALSE,
         offset |-> offset,
         illegitimate |-> (offset + base.a0b < 0 \/ offset + base.a0b > 511) ]

\* the checks on the offset; a1d is the difference, packed the table index made of it,
\* a1de and a1du what the tables give for packed
delta_decode(base, a1d, packed, a1de, a1du) ==
    LET low7 == LowBits(a1du, 7)
        offset == IF BitAt(low7, 6) = 1 THEN low7 - 128 ELSE low7
    IN [ base_index |-> base.base_index,
         a0be |-> base.a0be,
         a0b |-> base.a0b,
         a1d |-> a1d,
         too_large |-> (a1d > 63 \/ a1d < -64),
         packed |-> packed,
         a1de |-> a1de,
         flipped |-> TopBits(packed, 2) # TopBits(a1du, 2),   \* (a1d ^ a1du) & 0xC0
         offset |-> offset,
         illegitimate |-> (offset + base.a0b < 0 \/ offset + base.a0b > 511) ]

\* the offset: the difference to the base, its low 7 bits under the top bit of the base
delta_offset(base, v1, L) ==
    LET a1d == v1 * 2 - base.a0b
        packed == LowBits(a1d, 7) + 128 * BitAt(base.a0b, 8)
    IN delta_decode(base, a1d, packed, Quant(L, packed), Unquant(L, Quant(L, packed)))

delta_channel(v0, v1, L) == delta_offset(delta_base(v0, L), v1, L)

\* the common part of try_quantize_rgb_delta and try_quantize_rgb_delta_blue_contract from
\* "transform r0 to unorm9" on; wrong_sum is the sum rule's failure condition on the
\* three decoded offsets
rgb_delta_from_bytes(r, g, b, wrong_sum(_), L) ==
    LET bases == { r.base_index, g.base_index, b.base_index }
        offsets == { r.packed, g.packed, b.packed }
    IN IF r.too_large \/ g.too_large \/ b.too_large
       THEN Result(FALSE, NoWrites, bases)
       ELSE IF r.flipped \/ g.flipped \/ b.flipped
       THEN Result(FALSE, NoWrites, bases \cup offsets)
       ELSE IF wrong_sum(r.offset + g.offset + b.offset)
       THEN Result(FALSE, NoWrites, bases \cup offsets)
       ELSE IF r.illegitimate \/ g.illegitimate \/ b.illegitimate
       THEN Result(FALSE, NoWrites, bases \cup offsets)
       ELSE Result(TRUE,
                   (0 :> r.a0be) @@ (1 :> r.a1de) @@ (2 :> g.a0be) @@ (3 :> g.a1de)
                       @@ (4 :> b.a0be) @@ (5 :> b.a1de),
                   bases \cup offsets)

rgb_delta_wrong_sum(sum) == sum < 0

try_quantize_rgb_delta(c0, c1, L) ==
    LET i(x) == flt2int_rtn(clamp255f(x, 257), 257)
    IN rgb_delta_from_bytes(delta_channel(i(c0.r), i(c1.r), L),
                            delta_channel(i(c0.g), i(c1.g), L),
                            delta_channel(i(c0.b), i(c1.b), L),
                            rgb_delta_wrong_sum, L)

rgb_delta_blue_contract_wrong_sum(sum) == sum >= 0

\* try_quantize_rgb_delta_blue_contract from the range test on; r0 .. b1 are the
\* components after the endpoints were switched and inverse blue-contracted, over 257
rgb_delta_blue_contract_scaled(r0, g0, b0, r1, g1, b1, L) ==
    IF \E x \in { r0, g0, b0, r1, g1, b1 } : x < 0 \/ x > 255 * 257
    THEN Result(FALSE, NoWrites, {})
    ELSE rgb_delta_from_bytes(delta_channel(flt2int_rtn(r0, 257), flt2int_rtn(r1, 257), L),
                              delta_channel(flt2int_rtn(g0, 257), flt2int_rtn(g1, 257), L),
                              delta_channel(flt2int_rtn(b0, 257), flt2int_rtn(b1, 257), L),
                              rgb_delta_blue_contract_wrong_sum, L)

try_quantize_rgb_delta_blue_contract(c0, c1, L) ==
    rgb_delta_blue_contract_scaled(c1.r + (c1.r - c1.b), c1.g + (c1.g - c1.b), c1.b,
                                   c0.r + (c0.r - c0.b), c0.g + (c0.g - c0.b), c0.b, L)

\* try_quantize_alpha_delta on the pipeline a of the alpha channel
alpha_delta_from_bytes(a) ==
    IF a.too_large
    THEN Result(FALSE, NoWrites, { a.base_index })
    ELSE IF a.flipped \/ a.illegitimate
    THEN Result(FALSE, NoWrites, { a.base_index, a.packed })
    ELSE Result(TRUE, (6 :> a.a0be) @@ (7 :> a.a1de), { a.base_index, a.packed })

try_quantize_alpha_delta(c0, c1, L) ==
    alpha_delta_from_bytes(delta_channel(alpha_index(c0), alpha_index(c1), L))

\* the luminance byte of try_quantize_luminance_alpha_delta: (r + g + b) / 771, clamped, rounded
luminance_index(c) == flt2int_rtn(clamp255f(c.r + c.g + c.b, 771), 771)

\* try_quantize_luminance_alpha_delta on the pipelines l and a of the two channels
luminance_alpha_delta_from_bytes(l, a) ==
    IF l.too_large \/ a.too_large
    THEN Result(FALSE, NoWrites, { l.base_index, a.base_index })
    ELSE IF l.flipped \/ a.flipped \/ l.illegitimate \/ a.illegitimate
    THEN Result(FALSE, NoWrites, { l.base_index, a.base_index, l.packed, a.packed })
    ELSE Result(TRUE, (0 :> l.a0be) @@ (1 :> l.a1de) @@ (2 :> a.a0be) @@ (3 :> a.a1de),
                { l.base_index, a.base_index, l.packed, a.packed })

try_quantize_luminance_alpha_delta(c0, c1, L) ==
    luminance_alpha_delta_from_bytes(
        delta_channel(luminance_index(c0), luminance_index(c1), L),
        delta_channel(alpha_index(c0), alpha_index(c1), L))

\* "if (alpha_delta_res == 0) return 0;" and then the RGB attempt, which runs on the
\* output the alpha attempt wrote
after_alpha(alpha, rgb) == IF ~alpha.ok THEN alpha ELSE Also(rgb, alpha.w, alpha.rd)

try_quantize_rgba_delta(c0, c1, L) ==
    after_alpha(try_quantize_alpha_delta(c0, c1, L), try_quantize_rgb_delta(c0, c1, L))

try_quantize_rgba_delta_blue_contract(c0, c1, L) ==
    after_alpha(try_quantize_alpha_delta(c1, c0, L),
                try_quantize_rgb_delta_blue_contract(c0, c1, L))

(***************************************************************************)
(* RGB-scale, luminance and luminance+alpha.                               *)
(***************************************************************************)
\* rgbs.a is the desired scale, the fraction rgbs.a / ScaleDen.  The 1e-10f added to the
\* two colour sums is absorbed by any sum that is not 0; with both sums 0 the quotient
\* is 1, with only oldcolorsum 0 it is below 1e-9, with only newcolorsum 0 it exceeds 1e6.
rgbs_scale_idx(a, oldcolorsum, newcolorsum) ==
    LET \* scale = clamp1f(a * oldcolorsum / newcolorsum) as snum / sden
        sden == IF newcolorsum # 0 THEN ScaleDen * 257 * newcolorsum
                ELSE IF oldcolorsum = 0 THEN ScaleDen ELSE 1
        snum == IF newcolorsum # 0 THEN Clamp(a * oldcolorsum, 0, sden)
                ELSE IF oldcolorsum = 0 THEN Clamp(a, 0, sden)
                ELSE IF a * oldcolorsum > 0 THEN 1 ELSE 0
    IN \* flt2int_rtn(scale * 256.0f), clamped
       Clamp((512 * snum + sden) \div (2 * sden), 0, 255)

\* quantize_rgbs_new on the table indices r, g, b of the colour and of the scale
rgbs_write(r, g, b, scale_idx, L) ==
    Result(TRUE,
           (0 :> Quant(L, r)) @@ (1 :> Quant(L, g)) @@ (2 :> Quant(L, b))
               @@ (3 :> Quant(L, scale_idx)),
           { r, g, b, scale_idx })

rgbs_quantize(rgbs, r, g, b, L) ==
    rgbs_write(r, g, b,
               rgbs_scale_idx(rgbs.a, rgbs.r + rgbs.g + rgbs.b,
                              Unquant(L, Quant(L, r)) + Unquant(L, Quant(L, g))
                                  + Unquant(L, Quant(L, b))),
               L)

quantize_rgbs_new(rgbs, L) ==
    rgbs_quantize(rgbs, flt2int_rtn(clamp255f(rgbs.r, 257), 257),
                  flt2int_rtn(clamp255f(rgbs.g, 257), 257),
                  flt2int_rtn(clamp255f(rgbs.b, 257), 257), L)

quantize_rgbs_alpha_new(c0, c1, rgbs, L) ==
    Also(quantize_rgbs_new(rgbs, L),
         (4 :> Quant(L, alpha_index(c0))) @@ (5 :> Quant(L, alpha_index(c1))),
         { alpha_index(c0), alpha_index(c1) })

\* faulty variant: quantize_luminance without the mean, the luminances as they come
luminance_pair_as_given(lum0, lum1) == << 2 * lum0, 2 * lum1 >>

\* the two luminances of quantize_luminance as numerators over 1542 = 2 * 771; lum0 and
\* lum1 are over 771
luminance_pair(lum0, lum1) ==
    IF lum0 > lum1
    THEN << lum0 + lum1, lum0 + lum1 >>        \* avg = (lum0 + lum1) * 0.5
    ELSE << 2 * lum0, 2 * lum1 >>

\* faulty variant: quantize_luminance without the write of output[1]
luminance_write_first_only(i0, i1, L) == Result(TRUE, (0 :> Quant(L, i0)), { i0 })

luminance_write(i0, i1, L) ==
    Result(TRUE, (0 :> Quant(L, i0)) @@ (1 :> Quant(L, i1)), { i0, i1 })

luminance_quantize(lum, L) ==
    luminance_write(flt2int_rtn(lum[1], 1542), flt2int_rtn(lum[2], 1542), L)

quantize_luminance(c0, c1, L) ==
    luminance_quantize(luminance_pair(clamp255f(c0.r + c0.g + c0.b, 771),
                                      clamp255f(c1.r + c1.g + c1.b, 771)), L)

\* the "pull apart" step of quantize_luminance_alpha on a pair x0, x1 of numerators
\* over den; the result is over 2 * den
pull_apart(x0, x1, den, L) ==
    IF L > 18 /\ Abs(x0 - x1) < 3 * den
    THEN IF x0 < x1
         THEN << clamp255f(2 * x0 - den, 2 * den), clamp255f(2 * x1 + den, 2 * den) >>
         ELSE << clamp255f(2 * x0 + den, 2 * den), clamp255f(2 * x1 - den, 2 * den) >>
    ELSE << 2 * x0, 2 * x1 >>

\* faulty variant: quantize_luminance_alpha with the alpha pair in the slots quantize_rgba uses
luminance_alpha_write_rgba_slots(l0, l1, a0, a1, L) ==
    Result(TRUE,
           (0 :> Quant(L, l0)) @@ (1 :> Quant(L, l1)) @@ (6 :> Quant(L, a0)) @@ (7 :> Quant(L, a1)),
           { l0, l1, a0, a1 })

luminance_alpha_write(l0, l1, a0, a1, L) ==
    Result(TRUE,
           (0 :> Quant(L, l0)) @@ (1 :> Quant(L, l1)) @@ (2 :> Quant(L, a0)) @@ (3 :> Quant(L, a1)),
           { l0, l1, a0, a1 })

luminance_alpha_quantize(lum, alpha, L) ==
    luminance_alpha_write(flt2int_rtn(lum[1], 1542), flt2int_rtn(lum[2], 1542),
                          flt2int_rtn(alpha[1], 514), flt2int_rtn(alpha[2], 514), L)

quantize_luminance_alpha(c0, c1, L) ==
    luminance_alpha_quantize(pull_apart(clamp255f(c0.r + c0.g + c0.b, 771),
                                        clamp255f(c1.r + c1.g + c1.b, 771), 771, L),
                             pull_apart(clamp255f(c0.a, 257), clamp255f(c1.a, 257), 257, L),
                             L)

(***************************************************************************)
(* Round-trip guards: quantize and unquantize a byte, decrementing it      *)
(* until the round trip leaves its top two (four) bits alone.              *)
(***************************************************************************)
\* one pass of the do-while loop; n is the number of top bits compared
\* faulty variant: a guard that asks for another pass without decrementing the value
retain_top_bits_pass_without_decrement(L, value_to_quantize, n) ==
    [ quantval |-> Quant(L, value_to_quantize),
      uquantval |-> Unquant(L, Quant(L, value_to_quantize)),
      perform_loop |-> TopBits(value_to_quantize, n)
                           # TopBits(Unquant(L, Quant(L, value_to_quantize)), n),
      value_to_quantize |-> value_to_quantize ]

\* faulty variant: a guard that quantizes once and never asks for another pass
retain_top_bits_pass_once(L, value_to_quantize, n) ==
    [ quantval |-> Quant(L, value_to_quantize),
      uquantval |-> Unquant(L, Quant(L, value_to_quantize)),
      perform_loop |-> FALSE,
      value_to_quantize |-> value_to_quantize ]

retain_top_bits_pass(L, value_to_quantize, n) ==
    LET quantval == Quant(L, value_to_quantize)
        uquantval == Unquant(L, quantval)
    IN [ quantval |-> quantval,
         uquantval |-> uquantval,
         perform_loop |-> TopBits(value_to_quantize, n) # TopBits(uquantval, n),
         value_to_quantize |->
             IF TopBits(uquantval, n) > TopBits(value_to_quantize, n)
             THEN value_to_quantize - 1
             ELSE IF TopBits(uquantval, n) < TopBits(value_to_quantize, n)
             THEN value_to_quantize - 1
             ELSE value_to_quantize ]

\* the do-while loop: every pass that asks for another one decrements the value, so the
\* loop leaves at the first value, counting down, whose pass does not ask for another;
\* the number of decrements up to there
retain_top_bits_last(L, value_to_quantize, n) ==
    CHOOSE d \in 0 .. value_to_quantize :
        /\ ~retain_top_bits_pass(L, value_to_quantize - d, n).perform_loop
        /\ \A e \in 0 .. (d - 1) : retain_top_bits_pass(L, value_to_quantize - e, n).perform_loop

\* what the guard hands back after its last pass; rd are the table indices it read
retain_top_bits_leave(pass, rd) ==
    [ quantized_value |-> pass.quantval,
      unquantized_value |-> pass.uquantval,
      value_to_quantize |-> pass.value_to_quantize,
      rd |-> rd ]

retain_top_bits_from(L, value_to_quantize, n, last) ==
    retain_top_bits_leave(retain_top_bits_pass(L, value_to_quantize - last, n),
                          (value_to_quantize - last) .. value_to_quantize)

retain_top_bits_loop(L, value_to_quantize, n) ==
    retain_top_bits_from(L, value_to_quantize, n, retain_top_bits_last(L, value_to_quantize, n))

quantize_and_unquantize_retain_top_two_bits(L, value_to_quantize) ==
    retain_top_bits_loop(L, value_to_quantize, 2)

quantize_and_unquantize_retain_top_four_bits(L, value_to_quantize) ==
    retain_top_bits_loop(L, value_to_quantize, 4)

(***************************************************************************)
(* HDR RGB + offset (quantize_hdr_rgbo3).  The mode scales are 1 / 2^k,    *)
(* so every value is an integer but the recomputed scale, which is carried *)
(* over 3.                                                                 *)
(***************************************************************************)
rgbo_mode_bits(mode) == << <<11, 5, 7>>, <<11, 6, 5>>, <<10, 5, 8>>, <<9, 6, 7>>, <<8, 7, 6>> >>[mode + 1]

rgbo_mode_cutoffs(mode) ==
    << <<1024, 4096>>, <<2048, 1024>>, <<2048, 16384>>, <<8192, 16384>>, <<32768, 16384>> >>[mode + 1]

rgbo_mode_rscales(mode) == << 32, 32, 64, 128, 256 >>[mode + 1]

\* the index of the largest of r, g, b
major_component(c) ==
    IF c.r > c.g /\ c.r > c.b THEN 0 ELSE IF c.g > c.b THEN 1 ELSE 2

\* the colour with the red component and the largest component swapped around
swizzle(c, majcomp) ==
    CASE majcomp = 1 -> float4(c.g, c.r, c.b, c.a)
      [] majcomp = 2 -> float4(c.b, c.g, c.r, c.a)
      [] OTHER -> c

\* the locals of a function: the values assigned replace or extend the locals so far
With(locals, assigned) == assigned @@ locals

\* "finally, recompute the scale value": quantize the scale and write the output
rgbo3_write(s, r, g, b, sq) ==
    [ ok |-> TRUE,
      w |-> (0 :> r.quantized_value) @@ (1 :> g.quantized_value)
                @@ (2 :> b.quantized_value) @@ (3 :> sq.quantized_value),
      rd |-> r.rd \cup g.rd \cup b.rd \cup sq.rd,
      locals |-> s ]

rgbo3_scale_lowbits(s) ==
    LET bit6 == IF s.mode = 1 THEN BitAt(s.r_intval, 9) ELSE BitAt(s.s_intval, 5)
        bit5 == CASE s.mode = 4 -> BitAt(s.r_intval, 7)
                  [] s.mode = 1 -> BitAt(s.r_intval, 10)
                  [] OTHER -> BitAt(s.s_intval, 6)
        bit4 == IF s.mode = 2 THEN BitAt(s.s_intval, 7) ELSE BitAt(s.r_intval, 6)
    IN LowBits(s.s_intval, 5) + 32 * bit6 + 64 * bit5 + 128 * bit4

rgbo3_scale_quantize(s, r, g, b) ==
    IF s.s_intval >= s.s_intcutoff
    THEN Result(FALSE, NoWrites, r.rd \cup g.rd \cup b.rd)
    ELSE rgbo3_write(With(s, [s_lowbits |-> rgbo3_scale_lowbits(s)]), r, g, b,
                     quantize_and_unquantize_retain_top_four_bits(
                         s.L, rgbo3_scale_lowbits(s)))

\* s_fval is carried over 3; it stays below 1e9
rgbo3_scale(s, r, g, b) ==
    rgbo3_scale_quantize(
        With(s, [ s_intval |-> flt2int_rtn(MAX(3 * s.s_base + s.rgb_errorsum, 0),
                                           3 * s.mode_rscale) ]),
        r, g, b)

rgbo3_errorsum(s, r, g, b) ==
    rgbo3_scale(
        With(s, [ rgb_errorsum |-> (s.r_fval - s.color.r) + (s.r_fval - s.g_fval - s.color.g)
                                     + (s.r_fval - s.b_fval - s.color.b) ]),
        r, g, b)

\* G and B after the round trip of their low bits; r, g, b are what the guards handed back
rgbo3_green_blue_unquantized(s, r, g, b) ==
    rgbo3_errorsum(
        With(s, [ g_intval |-> ClearLow(s.g_intval, 5) + LowBits(g.unquantized_value, 5),
                  b_intval |-> ClearLow(s.b_intval, 5) + LowBits(b.unquantized_value, 5),
                  g_fval |-> (ClearLow(s.g_intval, 5) + LowBits(g.unquantized_value, 5))
                                 * s.mode_rscale,
                  b_fval |-> (ClearLow(s.b_intval, 5) + LowBits(b.unquantized_value, 5))
                                 * s.mode_rscale ]),
        r, g, b)

rgbo3_green_blue_quantize(s, r) ==
    rgbo3_green_blue_unquantized(
        s, r,
        quantize_and_unquantize_retain_top_four_bits(s.L, s.g_lowbits),
        quantize_and_unquantize_retain_top_four_bits(s.L, s.b_lowbits))

rgbo3_green_blue_lowbits(s, r) ==
    LET bit0 == CASE s.mode \in {0, 2} -> BitAt(s.r_intval, 9)
                  [] s.mode \in {1, 3} -> BitAt(s.r_intval, 8)
                  [] OTHER -> BitAt(s.g_intval, 6)
        bit2 == CASE s.mode \in {0, 1, 2, 3} -> BitAt(s.r_intval, 7)
                  [] OTHER -> BitAt(s.b_intval, 6)
        bit1 == CASE s.mode \in {0, 2} -> BitAt(s.r_intval, 8)
                  [] OTHER -> BitAt(s.g_intval, 5)
        bit3 == CASE s.mode = 0 -> BitAt(s.r_intval, 10)
                  [] s.mode = 2 -> BitAt(s.r_intval, 6)
                  [] OTHER -> BitAt(s.b_intval, 5)
    IN IF s.g_intval >= s.gb_intcutoff \/ s.b_intval >= s.gb_intcutoff
       THEN Result(FALSE, NoWrites, r.rd)
       ELSE rgbo3_green_blue_quantize(
                With(s, [ g_lowbits |-> LowBits(s.g_intval, 5) + 128 * BitAt(s.mode_enc, 2)
                                          + 64 * bit0 + 32 * bit1,
                          b_lowbits |-> LowBits(s.b_intval, 5) + 128 * BitAt(s.mode_enc, 3)
                                          + 64 * bit2 + 32 * bit3 ]),
                r)

\* "next, recompute G and B"
rgbo3_green_blue(s, r) ==
    rgbo3_green_blue_lowbits(
        With(s, [ g_intval |-> flt2int_rtn(Clamp(s.r_fval - s.color.g, 0, 65535), s.mode_rscale),
                  b_intval |-> flt2int_rtn(Clamp(s.r_fval - s.color.b, 0, 65535), s.mode_rscale) ]),
        r)

\* R after the round trip of its low bits; r is what the guard handed back
rgbo3_red_unquantized(s, r) ==
    rgbo3_green_blue(
        With(s, [ r_intval |-> ClearLow(s.r_intval, 6) + LowBits(r.unquantized_value, 6),
                  r_fval |-> (ClearLow(s.r_intval, 6) + LowBits(r.unquantized_value, 6))
                                 * s.mode_rscale ]),
        r)

rgbo3_red_quantize(s) ==
    rgbo3_red_unquantized(s, quantize_and_unquantize_retain_top_two_bits(s.L, s.r_lowbits))

\* "first, quantize and unquantize R"
rgbo3_red(s) ==
    rgbo3_red_quantize(
        With(s, [ r_lowbits |-> LowBits(s.r_intval, 6) + 64 * LowBits(s.mode_enc, 2) ]))

\* faulty variant: mode_enc = mode | (majcomp << 2) for mode 4 as well
rgbo3_mode_one_encoding(mode, color, majcomp, L) ==
    IF \/ color.r - color.g > rgbo_mode_cutoffs(mode)[1]
       \/ color.r - color.b > rgbo_mode_cutoffs(mode)[1]
       \/ color.a > rgbo_mode_cutoffs(mode)[2]
    THEN Result(FALSE, NoWrites, {})
    ELSE rgbo3_red([ mode |-> mode, majcomp |-> majcomp, color |-> color, L |-> L,
                     s_base |-> color.a,
                     mode_enc |-> IF mode = 4 /\ majcomp = 1 THEN 4 ELSE mode + 4 * majcomp,
                     mode_rscale |-> rgbo_mode_rscales(mode),
                     gb_intcutoff |-> Pow2(rgbo_mode_bits(mode)[2]),
                     s_intcutoff |-> Pow2(rgbo_mode_bits(mode)[3]),
                     r_intval |-> flt2int_rtn(color.r, rgbo_mode_rscales(mode)) ])

\* one pass of the loop over the modes 0..4 on the swizzled colour: ok is FALSE where the
\* source says continue
rgbo3_mode(mode, color, majcomp, L) ==
    IF \/ color.r - color.g > rgbo_mode_cutoffs(mode)[1]
       \/ color.r - color.b > rgbo_mode_cutoffs(mode)[1]
       \/ color.a > rgbo_mode_cutoffs(mode)[2]
    THEN Result(FALSE, NoWrites, {})
    ELSE rgbo3_red([ mode |-> mode, majcomp |-> majcomp, color |-> color, L |-> L,
                     s_base |-> color.a,
                     mode_enc |-> IF mode < 4 THEN mode + 4 * majcomp ELSE majcomp + 12,
                     mode_rscale |-> rgbo_mode_rscales(mode),
                     gb_intcutoff |-> Pow2(rgbo_mode_bits(mode)[2]),
                     s_intcutoff |-> Pow2(rgbo_mode_bits(mode)[3]),
                     r_intval |-> flt2int_rtn(color.r, rgbo_mode_rscales(mode)) ])

rgbo3_mode5_write(s, q0, q1, q2, q3) ==
    [ ok |-> TRUE,
      w |-> (0 :> q0.quantized_value) @@ (1 :> q1.quantized_value)
                @@ (2 :> q2.quantized_value) @@ (3 :> q3.quantized_value),
      rd |-> q0.rd \cup q1.rd \cup q2.rd \cup q3.rd,
      locals |-> s ]

rgbo3_mode5_quantize(s) ==
    rgbo3_mode5_write(s,
                      quantize_and_unquantize_retain_top_four_bits(s.L, s.encvals[1]),
                      quantize_and_unquantize_retain_top_four_bits(s.L, s.encvals[2]),
                      quantize_and_unquantize_retain_top_four_bits(s.L, s.encvals[3]),
                      quantize_and_unquantize_retain_top_four_bits(s.L, s.encvals[4]))

rgbo3_mode5_encode(s) ==
    rgbo3_mode5_quantize(
        With(s, [ encvals |-> << LowBits(s.ivals[1], 6) + 192,
                                 LowBits(s.ivals[2], 7) + 128,
                                 LowBits(s.ivals[3], 7) + 128,
                                 LowBits(s.ivals3, 7) + 128 * BitAt(s.ivals[1], 6) >> ]))

\* vals[3] is carried over 3
rgbo3_mode5_scale(s) ==
    rgbo3_mode5_encode(
        With(s, [ ivals3 |-> flt2int_rtn(Clamp(3 * s.vals3 + s.rgb_errorsum, 0, 3 * 65020),
                                         3 * 512) ]))

rgbo3_mode5_errorsum(s) ==
    rgbo3_mode5_scale(
        With(s, [ rgb_errorsum |-> (s.ivals[1] * 512 - s.vals[1]) + (s.ivals[2] * 512 - s.vals[2])
                                     + (s.ivals[3] * 512 - s.vals[3]) ]))

rgbo3_mode5_ivals(s) ==
    rgbo3_mode5_errorsum(
        With(s, [ ivals |-> [i \in 1 .. 3 |-> flt2int_rtn(s.vals[i], 512)] ]))

\* failed to encode any of the modes 0..4: encode using mode #5; color_bak is the clamped
\* colour before the swap
rgbo3_mode5(color_bak, L) ==
    rgbo3_mode5_ivals([ mode |-> 5, L |-> L,
                        vals |-> << Clamp(color_bak.r, 0, 65020), Clamp(color_bak.g, 0, 65020),
                                    Clamp(color_bak.b, 0, 65020) >>,
                        vals3 |-> color_bak.a ])

\* what res did after the table reads rd
After(rd, res) == [res EXCEPT !.rd = rd \cup @]

\* the loop over the modes: the first mode that does not say continue, else mode #5
RECURSIVE rgbo3_modes(_, _, _, _, _)
rgbo3_next_mode(mode, color, color_bak, majcomp, L, m) ==
    IF m.ok THEN m ELSE After(m.rd, rgbo3_modes(mode + 1, color, color_bak, majcomp, L))

rgbo3_modes(mode, color, color_bak, majcomp, L) ==
    IF mode = 5
    THEN rgbo3_mode5(color_bak, L)
    ELSE rgbo3_next_mode(mode, color, color_bak, majcomp, L, rgbo3_mode(mode, color, majcomp, L))

\* "swap around the red component and the largest component"
rgbo3_swizzled(color_bak, majcomp, L) ==
    rgbo3_modes(0, swizzle(color_bak, majcomp), color_bak, majcomp, L)

rgbo3_clamped(color_bak, L) == rgbo3_swizzled(color_bak, major_component(color_bak), L)

quantize_hdr_rgbo3(c, L) ==
    rgbo3_clamped(float4(Clamp(c.r + c.a, 0, 65535), Clamp(c.g + c.a, 0, 65535),
                         Clamp(c.b + c.a, 0, 65535), Clamp(c.a, 0, 65535)), L)

(***************************************************************************)
(* HDR RGB, base + offsets (quantize_hdr_rgb3).                            *)
(***************************************************************************)
rgb3_mode_bits(mode) ==
    << <<9, 7, 6, 7>>, <<9, 8, 6, 6>>, <<10, 6, 7, 7>>, <<10, 7, 7, 6>>,
       <<11, 8, 6, 5>>, <<11, 6, 8, 6>>, <<12, 7, 7, 5>>, <<12, 6, 7, 6>> >>[mode + 1]

rgb3_mode_cutoffs(mode) ==
    << <<16384, 8192, 8192, 8>>, <<32768, 8192, 4096, 8>>, <<4096, 8192, 4096, 4>>,
       <<8192, 8192, 2048, 4>>, <<8192, 2048, 512, 2>>, <<2048, 8192, 1024, 2>>,
       <<2048, 2048, 256, 1>>, <<1024, 2048, 512, 1>> >>[mode + 1]

rgb3_mode_rscales(mode) == << 128, 128, 64, 64, 32, 32, 16, 16 >>[mode + 1]

\* the end of a pass that fits: the guards' codewords are written
rgb3_write(s, cq, b0q, b1q, d0q, d1q) ==
    [ ok |-> TRUE,
      w |-> (0 :> s.a_quantval) @@ (1 :> cq.quantized_value)
                @@ (2 :> b0q.quantized_value) @@ (3 :> b1q.quantized_value)
                @@ (4 :> d0q.quantized_value) @@ (5 :> d1q.quantized_value),
      rd |-> { s.a_lowbits } \cup cq.rd \cup b0q.rd \cup b1q.rd \cup d0q.rd \cup d1q.rd,
      locals |-> s ]

rgb3_d_quantize(s, cq, b0q, b1q) ==
    rgb3_write(s, cq, b0q, b1q,
               quantize_and_unquantize_retain_top_four_bits(s.L, s.d0_lowbits),
               quantize_and_unquantize_retain_top_four_bits(s.L, s.d1_lowbits))

rgb3_d_lowbits(s, cq, b0q, b1q) ==
    LET bit2 == CASE s.mode \in {0, 2} -> BitAt(s.d0_intval, 6)
                  [] s.mode \in {1, 4} -> BitAt(s.b0_intval, 7)
                  [] s.mode = 3 -> BitAt(s.a_intval, 9)
                  [] s.mode = 5 -> BitAt(s.c_intval, 7)
                  [] OTHER -> BitAt(s.a_intval, 11)
        bit3 == CASE s.mode \in {0, 2} -> BitAt(s.d1_intval, 6)
                  [] s.mode \in {1, 4} -> BitAt(s.b1_intval, 7)
                  [] OTHER -> BitAt(s.c_intval, 6)
        bit4 == IF s.mode \in {4, 6} THEN BitAt(s.a_intval, 9) ELSE BitAt(s.d0_intval, 5)
        bit5 == IF s.mode \in {4, 6} THEN BitAt(s.a_intval, 10) ELSE BitAt(s.d1_intval, 5)
    IN IF Abs(s.d0_intval) >= s.d_intcutoff \/ Abs(s.d1_intval) >= s.d_intcutoff
       THEN Result(FALSE, NoWrites, { s.a_lowbits } \cup cq.rd \cup b0q.rd \cup b1q.rd)
       ELSE rgb3_d_quantize(
                With(s, [ d0_lowbits |-> LowBits(s.d0_intval, 5) + 64 * bit2 + 32 * bit4
                                           + 128 * BitAt(s.majcomp, 0),
                          d1_lowbits |-> LowBits(s.d1_intval, 5) + 64 * bit3 + 32 * bit5
                                           + 128 * BitAt(s.majcomp, 1) ]),
                cq, b0q, b1q)

\* "finally, recompute D0 and D1"
rgb3_d(s, cq, b0q, b1q) ==
    rgb3_d_lowbits(
        With(s, [ d0_intval |-> flt2int_rtn(Clamp(s.a_fval - s.b0_fval - s.c_fval - s.color0.g,
                                                  -65535, 65535), s.mode_rscale),
                  d1_intval |-> flt2int_rtn(Clamp(s.a_fval - s.b1_fval - s.c_fval - s.color0.b,
                                                  -65535, 65535), s.mode_rscale) ]),
        cq, b0q, b1q)

\* B0 and B1 after the round trip of their low bits
rgb3_b_unquantized(s, cq, b0q, b1q) ==
    rgb3_d(With(s, [ b0_intval |-> ClearLow(s.b0_intval, 6) + LowBits(b0q.unquantized_value, 6),
                     b1_intval |-> ClearLow(s.b1_intval, 6) + LowBits(b1q.unquantized_value, 6),
                     b0_fval |-> (ClearLow(s.b0_intval, 6) + LowBits(b0q.unquantized_value, 6))
                                     * s.mode_rscale,
                     b1_fval |-> (ClearLow(s.b1_intval, 6) + LowBits(b1q.unquantized_value, 6))
                                     * s.mode_rscale ]),
           cq, b0q, b1q)

rgb3_b_quantize(s, cq) ==
    rgb3_b_unquantized(s, cq,
                       quantize_and_unquantize_retain_top_two_bits(s.L, s.b0_lowbits),
                       quantize_and_unquantize_retain_top_two_bits(s.L, s.b1_lowbits))

rgb3_b_lowbits(s, cq) ==
    LET bit0 == IF s.mode \in {0, 1, 3, 4, 6} THEN BitAt(s.b0_intval, 6) ELSE BitAt(s.a_intval, 9)
        bit1 == CASE s.mode \in {0, 1, 3, 4, 6} -> BitAt(s.b1_intval, 6)
                  [] s.mode = 2 -> BitAt(s.c_intval, 6)
                  [] OTHER -> BitAt(s.a_intval, 10)
    IN IF s.b0_intval >= s.b_intcutoff \/ s.b1_intval >= s.b_intcutoff
       THEN Result(FALSE, NoWrites, { s.a_lowbits } \cup cq.rd)
       ELSE rgb3_b_quantize(
                With(s, [ b0_lowbits |-> LowBits(s.b0_intval, 6) + 64 * bit0
                                           + 128 * BitAt(s.mode, 1),
                          b1_lowbits |-> LowBits(s.b1_intval, 6) + 64 * bit1
                                           + 128 * BitAt(s.mode, 2) ]),
                cq)

\* "next, recompute B0 and B1"
rgb3_b(s, cq) ==
    rgb3_b_lowbits(
        With(s, [ b0_intval |-> flt2int_rtn(Clamp(s.a_fval - s.color1.g, 0, 65535), s.mode_rscale),
                  b1_intval |-> flt2int_rtn(Clamp(s.a_fval - s.color1.b, 0, 65535), s.mode_rscale) ]),
        cq)

\* C after the round trip of its low bits
rgb3_c_unquantized(s, cq) ==
    rgb3_b(With(s, [ c_intval |-> ClearLow(s.c_intval, 6) + LowBits(cq.unquantized_value, 6),
                     c_fval |-> (ClearLow(s.c_intval, 6) + LowBits(cq.unquantized_value, 6))
                                    * s.mode_rscale ]),
           cq)

rgb3_c_quantize(s) ==
    rgb3_c_unquantized(s, quantize_and_unquantize_retain_top_two_bits(s.L, s.c_lowbits))

rgb3_c_lowbits(s) ==
    IF s.c_intval >= s.c_intcutoff
    THEN Result(FALSE, NoWrites, { s.a_lowbits })
    ELSE rgb3_c_quantize(
             With(s, [ c_lowbits |-> LowBits(s.c_intval, 6) + 128 * (s.mode % 2)
                                       + 64 * BitAt(s.a_intval, 8) ]))

\* "next, recompute C"
rgb3_c(s) ==
    rgb3_c_lowbits(
        With(s, [ c_intval |-> flt2int_rtn(Clamp(s.a_fval - s.color0.r, 0, 65535),
                                           s.mode_rscale) ]))

\* A after the round trip of its low byte
rgb3_a_unquantized(s) ==
    rgb3_c(With(s, [ a_intval |-> ClearLow(s.a_intval, 8) + Unquant(s.L, s.a_quantval),
                     a_fval |-> (ClearLow(s.a_intval, 8) + Unquant(s.L, s.a_quantval))
                                    * s.mode_rscale ]))

rgb3_a_quantize(s) == rgb3_a_unquantized(With(s, [ a_quantval |-> Quant(s.L, s.a_lowbits) ]))

\* "first, quantize and unquantize A"
rgb3_a(s) == rgb3_a_quantize(With(s, [ a_lowbits |-> LowBits(s.a_intval, 8) ]))

\* one pass of the loop over the modes 7..0 on the swizzled colours: ok is FALSE where
\* the source says continue
rgb3_mode(mode, c0, c1, majcomp, L) ==
    LET a_base == Clamp(c1.r, 0, 65535)
        b0_base == a_base - c1.g
        b1_base == a_base - c1.b
        c_base == a_base - c0.r
        d0_base == a_base - b0_base - c_base - c0.g
        d1_base == a_base - b1_base - c_base - c0.b
    IN IF \/ b0_base > rgb3_mode_cutoffs(mode)[1]
          \/ b1_base > rgb3_mode_cutoffs(mode)[1]
          \/ c_base > rgb3_mode_cutoffs(mode)[2]
          \/ Abs(d0_base) > rgb3_mode_cutoffs(mode)[3]
          \/ Abs(d1_base) > rgb3_mode_cutoffs(mode)[3]
       THEN Result(FALSE, NoWrites, {})
       ELSE rgb3_a([ mode |-> mode, majcomp |-> majcomp, color0 |-> c0, color1 |-> c1, L |-> L,
                     mode_rscale |-> rgb3_mode_rscales(mode),
                     b_intcutoff |-> Pow2(rgb3_mode_bits(mode)[2]),
                     c_intcutoff |-> Pow2(rgb3_mode_bits(mode)[3]),
                     d_intcutoff |-> Pow2(rgb3_mode_bits(mode)[4] - 1),
                     a_intval |-> flt2int_rtn(a_base, rgb3_mode_rscales(mode)) ])

rgb3_flat_write(s, q4, q5) ==
    [ ok |-> TRUE,
      w |-> [i \in 0 .. 3 |-> Quant(s.L, s.idx[i + 1])]
                @@ (4 :> q4.quantized_value) @@ (5 :> q5.quantized_value),
      rd |-> { s.idx[i] : i \in 1 .. 4 } \cup q4.rd \cup q5.rd,
      locals |-> s ]

rgb3_flat_quantize(s) ==
    rgb3_flat_write(s,
                    quantize_and_unquantize_retain_top_two_bits(s.L, s.idx[5]),
                    quantize_and_unquantize_retain_top_two_bits(s.L, s.idx[6]))

rgb3_flat_idx(s) ==
    rgb3_flat_quantize(
        With(s, [ idx |-> [i \in 1 .. 6 |-> IF i <= 4 THEN flt2int_rtn(s.vals[i], 256)
                                            ELSE flt2int_rtn(s.vals[i], 512) + 128] ]))

\* faulty variant: the flat representation without the 128 added to the blue bytes
rgb3_flat_blue_unbiased(color0_bak, color1_bak, L) ==
    LET vals == << Clamp(color0_bak.r, 0, 65020), Clamp(color1_bak.r, 0, 65020),
                   Clamp(color0_bak.g, 0, 65020), Clamp(color1_bak.g, 0, 65020),
                   Clamp(color0_bak.b, 0, 65020), Clamp(color1_bak.b, 0, 65020) >>
    IN rgb3_flat_quantize([ mode |-> -1, L |-> L, vals |-> vals,
                            idx |-> [i \in 1 .. 6 |-> flt2int_rtn(vals[i], IF i <= 4 THEN 256 ELSE 512)] ])

\* neither of the modes fit: the flat representation, from the clamped colours before
\* the swizzle
rgb3_flat(color0_bak, color1_bak, L) ==
    rgb3_flat_idx([ mode |-> -1, L |-> L,
                    vals |-> << Clamp(color0_bak.r, 0, 65020), Clamp(color1_bak.r, 0, 65020),
                                Clamp(color0_bak.g, 0, 65020), Clamp(color1_bak.g, 0, 65020),
                                Clamp(color0_bak.b, 0, 65020), Clamp(color1_bak.b, 0, 65020) >> ])

\* the loop over the modes: the first mode that does not say continue, else the flat one
RECURSIVE rgb3_modes(_, _, _, _, _, _, _)
rgb3_next_mode(mode, c0, c1, color0_bak, color1_bak, majcomp, L, m) ==
    IF m.ok
    THEN m
    ELSE After(m.rd, rgb3_modes(mode - 1, c0, c1, color0_bak, color1_bak, majcomp, L))

rgb3_modes(mode, c0, c1, color0_bak, color1_bak, majcomp, L) ==
    IF mode < 0
    THEN rgb3_flat(color0_bak, color1_bak, L)
    ELSE rgb3_next_mode(mode, c0, c1, color0_bak, color1_bak, majcomp, L,
                        rgb3_mode(mode, c0, c1, majcomp, L))

\* "swizzle the components"
rgb3_swizzled(color0_bak, color1_bak, majcomp, L) ==
    rgb3_modes(7, swizzle(color0_bak, majcomp), swizzle(color1_bak, majcomp),
               color0_bak, color1_bak, majcomp, L)

rgb3_clamped(color0_bak, color1_bak, L) ==
    rgb3_swizzled(color0_bak, color1_bak, major_component(color1_bak), L)

quantize_hdr_rgb3(c0, c1, L) ==
    rgb3_clamped(float4(Clamp(c0.r, 0, 65535), Clamp(c0.g, 0, 65535), Clamp(c0.b, 0, 65535), c0.a),
                 float4(Clamp(c1.r, 0, 65535), Clamp(c1.g, 0, 65535), Clamp(c1.b, 0, 65535), c1.a),
                 L)

quantize_hdr_rgb_ldr_alpha3(c0, c1, L) ==
    Also(quantize_hdr_rgb3(c0, c1, L),
         (6 :> Quant(L, alpha_index(c0))) @@ (7 :> Quant(L, alpha_index(c1))),
         { alpha_index(c0), alpha_index(c1) })

(***************************************************************************)
(* HDR luminance and HDR alpha.                                            *)
(***************************************************************************)
\* ilum0, ilum1 of the two HDR luminance encoders: the luminances (r + g + b) / 3, both
\* replaced by their average when lum1 < lum0, rounded
hdr_luminance_pair(c0, c1) ==
    LET lum1 == c1.r + c1.g + c1.b        \* over 3
        lum0 == c0.r + c0.g + c0.b
    IN IF lum1 < lum0
       THEN [ ilum0 |-> flt2int_rtn(lum0 + lum1, 6), ilum1 |-> flt2int_rtn(lum0 + lum1, 6) ]
       ELSE [ ilum0 |-> flt2int_rtn(lum0, 3), ilum1 |-> flt2int_rtn(lum1, 3) ]

hdr_luminance_large_write(v0, v1, upper, L) ==
    [ ok |-> TRUE,
      w |-> (0 :> Quant(L, v0)) @@ (1 :> Quant(L, v1)),
      rd |-> { v0, v1 },
      locals |-> [ upper |-> upper, v0 |-> v0, v1 |-> v1 ] ]

\* the pair of the half of the code-point space with the smaller error
hdr_luminance_large_choose(s, L) ==
    IF s.upper_error < s.lower_error
    THEN hdr_luminance_large_write(s.upper_v0, s.upper_v1, TRUE, L)
    ELSE hdr_luminance_large_write(s.lower_v0, s.lower_v1, FALSE, L)

\* "determine the distance between the point in code-point space and the input value"
hdr_luminance_large_errors(s, L) ==
    LET upper0_diff == s.upper_v0 * 256 - s.ilum0
        upper1_diff == s.upper_v1 * 256 - s.ilum1
        lower0_diff == (s.lower_v1 * 256 + 128) - s.ilum0
        lower1_diff == (s.lower_v0 * 256 - 128) - s.ilum1
    IN hdr_luminance_large_choose(
           With(s, [ upper_error |-> upper0_diff * upper0_diff + upper1_diff * upper1_diff,
                     lower_error |-> lower0_diff * lower0_diff + lower1_diff * lower1_diff ]),
           L)

\* the closest encodable points in the upper and in the lower half of the code-point space
hdr_luminance_large_points(lum, L) ==
    hdr_luminance_large_errors(
        With(lum, [ upper_v0 |-> Clamp((lum.ilum0 + 128) \div 256, 0, 255),
                    upper_v1 |-> Clamp((lum.ilum1 + 128) \div 256, 0, 255),
                    lower_v0 |-> Clamp((lum.ilum1 + 256) \div 256, 0, 255),
                    lower_v1 |-> Clamp(lum.ilum0 \div 256, 0, 255) ]),
        L)

quantize_hdr_luminance_large_range3(c0, c1, L) ==
    hdr_luminance_large_points(hdr_luminance_pair(c0, c1), L)

\* faulty variant: a submode that does not test the high bits of the round-tripped v1
hdr_luminance_submode_v1_unchecked(s) ==
    [ ok |-> TRUE, w |-> (0 :> s.v0e) @@ (1 :> s.v1e), rd |-> { s.v0, s.v1 }, locals |-> s ]

hdr_luminance_submode_v1(s) ==
    IF TopBits(s.v1d, s.kept) # TopBits(s.v1, s.kept)
    THEN Result(FALSE, NoWrites, { s.v0, s.v1 })
    ELSE [ ok |-> TRUE, w |-> (0 :> s.v0e) @@ (1 :> s.v1e), rd |-> { s.v0, s.v1 }, locals |-> s ]

hdr_luminance_submode_v1_quantize(s) ==
    hdr_luminance_submode_v1(
        With(s, [ v1e |-> Quant(s.L, s.v1), v1d |-> Unquant(s.L, Quant(s.L, s.v1)) ]))

\* v1 is ((lowval >> 3) & 0xF0) | diffval, resp. ((lowval >> 2) & 0xE0) | diffval
hdr_luminance_submode_diff(s) ==
    IF s.diffval < 0 \/ s.diffval > s.maxdiff
    THEN Result(FALSE, NoWrites, { s.v0 })
    ELSE hdr_luminance_submode_v1_quantize(
             With(s, [ v1 |-> TopBits(s.lowval \div Pow2(s.kept - 1), s.kept) + s.diffval ]))

hdr_luminance_submode_v0(s) ==
    IF BitAt(s.v0d, 7) # s.flag
    THEN Result(FALSE, NoWrites, { s.v0 })
    ELSE hdr_luminance_submode_diff(
             With(s, [ lowval |-> ClearLow(s.lowval, 7) + LowBits(s.v0d, 7),
                       diffval |-> s.highval - (ClearLow(s.lowval, 7) + LowBits(s.v0d, 7)) ]))

hdr_luminance_submode_v0_quantize(s) ==
    hdr_luminance_submode_v0(
        With(s, [ v0e |-> Quant(s.L, s.v0), v0d |-> Unquant(s.L, Quant(s.L, s.v0)) ]))

hdr_luminance_submode_values(s) ==
    hdr_luminance_submode_v0_quantize(With(s, [ v0 |-> LowBits(s.lowval, 7) + 128 * s.flag ]))

\* one submode of try_quantize_hdr_luminance_small_range3: the high-precision submode
\* is (shift 5, top 2047, flag 0, diff up to 15, 4 kept bits), the low-precision one
\* (shift 6, top 1023, flag 1, diff up to 31, 3 kept bits)
hdr_luminance_submode(ilum0, ilum1, shift, top, flag, maxdiff, kept, L) ==
    hdr_luminance_submode_values(
        [ L |-> L, flag |-> flag, maxdiff |-> maxdiff, kept |-> kept,
          lowval |-> Clamp((ilum0 + Pow2(shift - 1)) \div Pow2(shift), 0, top),
          highval |-> Clamp((ilum1 + Pow2(shift - 1)) \div Pow2(shift), 0, top) ])

\* LOW_PRECISION_SUBMODE, reached from the failed high-precision submode high
hdr_luminance_low_precision(lum, high, L) ==
    IF high.ok
    THEN high
    ELSE After(high.rd, hdr_luminance_submode(lum.ilum0, lum.ilum1, 6, 1023, 1, 31, 3, L))

hdr_luminance_small_range(lum, L) ==
    IF lum.ilum1 - lum.ilum0 > 2048
    THEN Result(FALSE, NoWrites, {})
    ELSE hdr_luminance_low_precision(
             lum, hdr_luminance_submode(lum.ilum0, lum.ilum1, 5, 2047, 0, 15, 4, L), L)

try_quantize_hdr_luminance_small_range3(c0, c1, L) ==
    hdr_luminance_small_range(hdr_luminance_pair(c0, c1), L)

hdr_alpha_submode_v7(s) ==
    IF TopBits(s.v7, 3 + s.i) # TopBits(s.v7d, 3 + s.i)
    THEN Result(FALSE, NoWrites, { s.v6, s.v7 })
    ELSE [ ok |-> TRUE, w |-> (0 :> s.v6e) @@ (1 :> s.v7e), rd |-> { s.v6, s.v7 }, locals |-> s ]

hdr_alpha_submode_v7_quantize(s) ==
    hdr_alpha_submode_v7(
        With(s, [ v7e |-> Quant(s.L, s.v7), v7d |-> Unquant(s.L, Quant(s.L, s.v7)) ]))

\* faulty variant: a submode that turns down a difference of -cutoff
hdr_alpha_submode_diff_within_cutoff(s) ==
    IF s.diffval <= -s.cutoff \/ s.diffval >= s.cutoff
    THEN Result(FALSE, NoWrites, { s.v6 })
    ELSE hdr_alpha_submode_v7_quantize(
             With(s, [ v7 |-> 128 * BitAt(s.i, 1) + (s.val0 \div 128) * Pow2(6 - s.i)
                                + LowBits(s.diffval, 6 - s.i) ]))

\* v7 is ((i & 2) << 6) | ((val0 >> 7) << (6 - i)) | (diffval & mask): val0 >> 7 has at
\* most i + 1 bits, so the three fields do not overlap
hdr_alpha_submode_diff(s) ==
    IF s.diffval < -s.cutoff \/ s.diffval >= s.cutoff
    THEN Result(FALSE, NoWrites, { s.v6 })
    ELSE hdr_alpha_submode_v7_quantize(
             With(s, [ v7 |-> 128 * BitAt(s.i, 1) + (s.val0 \div 128) * Pow2(6 - s.i)
                                + LowBits(s.diffval, 6 - s.i) ]))

hdr_alpha_submode_v6(s) ==
    IF BitAt(s.v6, 7) # BitAt(s.v6d, 7)
    THEN Result(FALSE, NoWrites, { s.v6 })
    ELSE hdr_alpha_submode_diff(
             With(s, [ val0 |-> ClearLow(s.val0, 7) + LowBits(s.v6d, 7),
                       diffval |-> s.val1 - (ClearLow(s.val0, 7) + LowBits(s.v6d, 7)),
                       cutoff |-> Pow2(5 - s.i) ]))

hdr_alpha_submode_v6_quantize(s) ==
    hdr_alpha_submode_v6(
        With(s, [ v6e |-> Quant(s.L, s.v6), v6d |-> Unquant(s.L, Quant(s.L, s.v6)) ]))

hdr_alpha_submode_values(s) ==
    hdr_alpha_submode_v6_quantize(With(s, [ v6 |-> LowBits(s.val0, 7) + 128 * (s.i % 2) ]))

\* one pass of the loop over the delta submodes i = 2, 1, 0 of quantize_hdr_alpha3
hdr_alpha_submode(ialpha0, ialpha1, i, L) ==
    hdr_alpha_submode_values(
        [ L |-> L, i |-> i,
          val0 |-> (ialpha0 + Pow2(7 - i)) \div Pow2(8 - i),
          val1 |-> (ialpha1 + Pow2(7 - i)) \div Pow2(8 - i) ])

hdr_alpha_flat_write(v6, v7, L) ==
    [ ok |-> TRUE,
      w |-> (0 :> Quant(L, v6)) @@ (1 :> Quant(L, v7)),
      rd |-> { v6, v7 },
      locals |-> [ i |-> -1, v6 |-> v6, v7 |-> v7 ] ]

\* "could not encode any of the delta modes; instead encode a flat value"
hdr_alpha_flat(ialpha0, ialpha1, L) ==
    hdr_alpha_flat_write(Or80((ialpha0 + 256) \div 512), Or80((ialpha1 + 256) \div 512), L)

RECURSIVE hdr_alpha_submodes(_, _, _, _)
hdr_alpha_next_submode(ialpha0, ialpha1, i, L, m) ==
    IF m.ok THEN m ELSE After(m.rd, hdr_alpha_submodes(ialpha0, ialpha1, i - 1, L))

hdr_alpha_submodes(ialpha0, ialpha1, i, L) ==
    IF i < 0
    THEN hdr_alpha_flat(ialpha0, ialpha1, L)
    ELSE hdr_alpha_next_submode(ialpha0, ialpha1, i, L, hdr_alpha_submode(ialpha0, ialpha1, i, L))

\* writes output[0] and output[1] of the buffer it is handed
quantize_hdr_alpha3(alpha0, alpha1, L) ==
    hdr_alpha_submodes(Clamp(alpha0, 0, 65280), Clamp(alpha1, 0, 65280), 2, L)

\* the writes of quantize_hdr_alpha3 when it is handed output + 6
hdr_rgb_alpha3_alpha(rgb, alpha) ==
    Also(rgb, (6 :> alpha.w[0]) @@ (7 :> alpha.w[1]), alpha.rd)

quantize_hdr_rgb_alpha3(c0, c1, L) ==
    hdr_rgb_alpha3_alpha(quantize_hdr_rgb3(c0, c1, L), quantize_hdr_alpha3(c0.a, c1.a, L))

(***************************************************************************)
(* pack_color_endpoints.  One action per step of the dispatcher: Enter     *)
(* (the clamp of the input colours and the switch on the format) and one   *)
(* action per attempt, enabled where the code reaches the attempt.         *)
(***************************************************************************)
FMT_LUMINANCE == "FMT_LUMINANCE"
FMT_HDR_LUMINANCE_LARGE_RANGE == "FMT_HDR_LUMINANCE_LARGE_RANGE"
FMT_HDR_LUMINANCE_SMALL_RANGE == "FMT_HDR_LUMINANCE_SMALL_RANGE"
FMT_LUMINANCE_ALPHA == "FMT_LUMINANCE_ALPHA"
FMT_LUMINANCE_ALPHA_DELTA == "FMT_LUMINANCE_ALPHA_DELTA"
FMT_RGB_SCALE == "FMT_RGB_SCALE"
FMT_HDR_RGB_SCALE == "FMT_HDR_RGB_SCALE"
FMT_RGB == "FMT_RGB"
FMT_RGB_DELTA == "FMT_RGB_DELTA"
FMT_RGB_SCALE_ALPHA == "FMT_RGB_SCALE_ALPHA"
FMT_HDR_RGB == "FMT_HDR_RGB"
FMT_RGBA == "FMT_RGBA"
FMT_RGBA_DELTA == "FMT_RGBA_DELTA"
FMT_HDR_RGB_LDR_ALPHA == "FMT_HDR_RGB_LDR_ALPHA"
FMT_HDR_RGBA == "FMT_HDR_RGBA"

\* the formats the switch of pack_color_endpoints has a case for
RequestFormats ==
    { FMT_RGB, FMT_RGBA, FMT_RGB_SCALE, FMT_HDR_RGB_SCALE, FMT_HDR_RGB, FMT_RGB_SCALE_ALPHA,
      FMT_HDR_LUMINANCE_SMALL_RANGE, FMT_HDR_LUMINANCE_LARGE_RANGE, FMT_LUMINANCE,
      FMT_LUMINANCE_ALPHA, FMT_HDR_RGB_LDR_ALPHA, FMT_HDR_RGBA }

\* int retval = 0, before the switch assigns it
NoTag == "0"

\* the caller's buffer before the call: no codeword (a codeword is below 256)
Stale(slot) == 256 + slot

\* faulty variant: a dispatcher with a static flag that a call sets when it returns, and
\* that makes every later call skip the delta attempts
first_attempt_after_a_call(fmt, L) ==
    CASE fmt = FMT_RGB ->
            IF L <= 18 /\ other.pc # "return" THEN "try_quantize_rgb_delta_blue_contract"
                                              ELSE "try_quantize_rgb_blue_contract"
      [] fmt = FMT_RGBA ->
            IF L <= 18 /\ other.pc # "return" THEN "try_quantize_rgba_delta_blue_contract"
                                              ELSE "try_quantize_rgba_blue_contract"
      [] fmt = FMT_RGB_SCALE -> "quantize_rgbs_new"
      [] fmt = FMT_HDR_RGB_SCALE -> "quantize_hdr_rgbo3"
      [] fmt = FMT_HDR_RGB -> "quantize_hdr_rgb3"
      [] fmt = FMT_RGB_SCALE_ALPHA -> "quantize_rgbs_alpha_new"
      [] fmt \in { FMT_HDR_LUMINANCE_SMALL_RANGE, FMT_HDR_LUMINANCE_LARGE_RANGE } ->
            "try_quantize_hdr_luminance_small_range3"
      [] fmt = FMT_LUMINANCE -> "quantize_luminance"
      [] fmt = FMT_LUMINANCE_ALPHA ->
            IF L <= 18 /\ other.pc # "return" THEN "try_quantize_luminance_alpha_delta"
                                              ELSE "quantize_luminance_alpha"
      [] fmt = FMT_HDR_RGB_LDR_ALPHA -> "quantize_hdr_rgb_ldr_alpha3"
      [] fmt = FMT_HDR_RGBA -> "quantize_hdr_rgb_alpha3"
      [] OTHER -> "return"

\* the first attempt of the case of the switch for format fmt at level L
first_attempt(fmt, L) ==
    CASE fmt = FMT_RGB ->
            IF L <= 18 THEN "try_quantize_rgb_delta_blue_contract"
                       ELSE "try_quantize_rgb_blue_contract"
      [] fmt = FMT_RGBA ->
            IF L <= 18 THEN "try_quantize_rgba_delta_blue_contract"
                       ELSE "try_quantize_rgba_blue_contract"
      [] fmt = FMT_RGB_SCALE -> "quantize_rgbs_new"
      [] fmt = FMT_HDR_RGB_SCALE -> "quantize_hdr_rgbo3"
      [] fmt = FMT_HDR_RGB -> "quantize_hdr_rgb3"
      [] fmt = FMT_RGB_SCALE_ALPHA -> "quantize_rgbs_alpha_new"
      [] fmt \in { FMT_HDR_LUMINANCE_SMALL_RANGE, FMT_HDR_LUMINANCE_LARGE_RANGE } ->
            "try_quantize_hdr_luminance_small_range3"
      [] fmt = FMT_LUMINANCE -> "quantize_luminance"
      [] fmt = FMT_LUMINANCE_ALPHA ->
            IF L <= 18 THEN "try_quantize_luminance_alpha_delta" ELSE "quantize_luminance_alpha"
      [] fmt = FMT_HDR_RGB_LDR_ALPHA -> "quantize_hdr_rgb_ldr_alpha3"
      [] fmt = FMT_HDR_RGBA -> "quantize_hdr_rgb_alpha3"
      [] OTHER -> "return"

\* "we do not support negative colors"
clamp_color(c) == float4(MAX(c.r, 0), MAX(c.g, 0), MAX(c.b, 0), MAX(c.a, 0))

Enter ==
    /\ pc = "pack_color_endpoints"
    /\ color0' = clamp_color(color0)
    /\ color1' = clamp_color(color1)
    /\ retval' = NoTag
    /\ pc' = first_attempt(format, quantization_level)
    /\ UNCHANGED << tables, format, quantization_level, rgbs_color, rgbo_color,
                    output, written, reads, tried, guard, loop, other >>

\* faulty variant: a dispatcher that notes the tag of a successful attempt and goes on to the
\* next attempt instead of leaving the switch
attempt_without_break(res, tag, next) ==
    /\ output' = [slot \in 0 .. 7 |-> IF slot \in DOMAIN res.w THEN res.w[slot] ELSE output[slot]]
    /\ written' = written \cup DOMAIN res.w
    /\ reads' = reads \cup res.rd
    /\ tried' = Append(tried, [attempt |-> pc, ok |-> res.ok])
    /\ retval' = IF res.ok THEN tag ELSE retval
    /\ pc' = next
    /\ UNCHANGED << tables, format, quantization_level, color0, color1, rgbs_color, rgbo_color,
                    guard, loop, other >>

\* faulty variant: a dispatcher whose attempts write only the slots no earlier attempt
\* of the call has written
attempt_keeping_earlier_writes(res, tag, next) ==
    /\ output' = [slot \in 0 .. 7 |-> IF slot \in DOMAIN res.w \ written THEN res.w[slot]
                                                                       ELSE output[slot]]
    /\ written' = written \cup DOMAIN res.w
    /\ reads' = reads \cup res.rd
    /\ tried' = Append(tried, [attempt |-> pc, ok |-> res.ok])
    /\ IF res.ok
       THEN retval' = tag /\ pc' = "return"
       ELSE retval' = retval /\ pc' = next
    /\ UNCHANGED << tables, format, quantization_level, color0, color1, rgbs_color, rgbo_color,
                    guard, loop, other >>

\* the attempt at pc runs with result res: its writes reach output; when it succeeds the
\* call returns tag, otherwise the dispatcher goes on to the attempt next
Attempt(res, tag, next) ==
    /\ output' = [slot \in 0 .. 7 |-> IF slot \in DOMAIN res.w THEN res.w[slot] ELSE output[slot]]
    /\ written' = written \cup DOMAIN res.w
    /\ reads' = reads \cup res.rd
    /\ tried' = Append(tried, [attempt |-> pc, ok |-> res.ok])
    /\ IF res.ok
       THEN retval' = tag /\ pc' = "return"
       ELSE retval' = retval /\ pc' = next
    /\ UNCHANGED << tables, format, quantization_level, color0, color1, rgbs_color, rgbo_color,
                    guard, loop, other >>

TryRgbDeltaBlueContract ==
    /\ pc = "try_quantize_rgb_delta_blue_contract"
    /\ Attempt(try_quantize_rgb_delta_blue_contract(color0, color1, quantization_level),
               FMT_RGB_DELTA, "try_quantize_rgb_delta")

TryRgbDelta ==
    /\ pc = "try_quantize_rgb_delta"
    /\ Attempt(try_quantize_rgb_delta(color0, color1, quantization_level),
               FMT_RGB_DELTA, "try_quantize_rgb_blue_contract")

TryRgbBlueContract ==
    /\ pc = "try_quantize_rgb_blue_contract"
    /\ Attempt(try_quantize_rgb_blue_contract(color0, color1, quantization_level),
               FMT_RGB, "quantize_rgb")

QuantizeRgb ==
    /\ pc = "quantize_rgb"
    /\ Attempt(quantize_rgb(color0, color1, quantization_level), FMT_RGB, "return")

TryRgbaDeltaBlueContract ==
    /\ pc = "try_quantize_rgba_delta_blue_contract"
    /\ Attempt(try_quantize_rgba_delta_blue_contract(color0, color1, quantization_level),
               FMT_RGBA_DELTA, "try_quantize_rgba_delta")

TryRgbaDelta ==
    /\ pc = "try_quantize_rgba_delta"
    /\ Attempt(try_quantize_rgba_delta(color0, color1, quantization_level),
               FMT_RGBA_DELTA, "try_quantize_rgba_blue_contract")

TryRgbaBlueContract ==
    /\ pc = "try_quantize_rgba_blue_contract"
    /\ Attempt(try_quantize_rgba_blue_contract(color0, color1, quantization_level),
               FMT_RGBA, "quantize_rgba")

QuantizeRgba ==
    /\ pc = "quantize_rgba"
    /\ Attempt(quantize_rgba(color0, color1, quantization_level), FMT_RGBA, "return")

QuantizeRgbs ==
    /\ pc = "quantize_rgbs_new"
    /\ Attempt(quantize_rgbs_new(rgbs_color, quantization_level), FMT_RGB_SCALE, "return")

QuantizeHdrRgbo ==
    /\ pc = "quantize_hdr_rgbo3"
    /\ Attempt(quantize_hdr_rgbo3(rgbo_color, quantization_level), FMT_HDR_RGB_SCALE, "return")

QuantizeHdrRgb ==
    /\ pc = "quantize_hdr_rgb3"
    /\ Attempt(quantize_hdr_rgb3(color0, color1, quantization_level), FMT_HDR_RGB, "return")

QuantizeRgbsAlpha ==
    /\ pc = "quantize_rgbs_alpha_new"
    /\ Attempt(quantize_rgbs_alpha_new(color0, color1, rgbs_color, quantization_level),
               FMT_RGB_SCALE_ALPHA, "return")

\* faulty variant: the small-range attempt answering with the requested tag
TryHdrLuminanceSmallRangeAsRequested ==
    /\ pc = "try_quantize_hdr_luminance_small_range3"
    /\ Attempt(try_quantize_hdr_luminance_small_range3(color0, color1, quantization_level),
               format, "quantize_hdr_luminance_large_range3")

TryHdrLuminanceSmallRange ==
    /\ pc = "try_quantize_hdr_luminance_small_range3"
    /\ Attempt(try_quantize_hdr_luminance_small_range3(color0, color1, quantization_level),
               FMT_HDR_LUMINANCE_SMALL_RANGE, "quantize_hdr_luminance_large_range3")

QuantizeHdrLuminanceLargeRange ==
    /\ pc = "quantize_hdr_luminance_large_range3"
    /\ Attempt(quantize_hdr_luminance_large_range3(color0, color1, quantization_level),
               FMT_HDR_LUMINANCE_LARGE_RANGE, "return")

QuantizeLuminance ==
    /\ pc = "quantize_luminance"
    /\ Attempt(quantize_luminance(color0, color1, quantization_level), FMT_LUMINANCE, "return")

\* faulty variant: the delta attempt answering with the requested tag
TryLuminanceAlphaDeltaAsRequested ==
    /\ pc = "try_quantize_luminance_alpha_delta"
    /\ Attempt(try_quantize_luminance_alpha_delta(color0, color1, quantization_level),
               format, "quantize_luminance_alpha")

TryLuminanceAlphaDelta ==
    /\ pc = "try_quantize_luminance_alpha_delta"
    /\ Attempt(try_quantize_luminance_alpha_delta(color0, color1, quantization_level),
               FMT_LUMINANCE_ALPHA_DELTA, "quantize_luminance_alpha")

QuantizeLuminanceAlpha ==
    /\ pc = "quantize_luminance_alpha"
    /\ Attempt(quantize_luminance_alpha(color0, color1, quantization_level),
               FMT_LUMINANCE_ALPHA, "return")

QuantizeHdrRgbLdrAlpha ==
    /\ pc = "quantize_hdr_rgb_ldr_alpha3"
    /\ Attempt(quantize_hdr_rgb_ldr_alpha3(color0, color1, quantization_level),
               FMT_HDR_RGB_LDR_ALPHA, "return")

QuantizeHdrRgbAlpha ==
    /\ pc = "quantize_hdr_rgb_alpha3"
    /\ Attempt(quantize_hdr_rgb_alpha3(color0, color1, quantization_level),
               FMT_HDR_RGBA, "return")

(***************************************************************************)
(* The calls explored: every level, every format of the switch, and        *)
(* colours from the first NumColors entries of Palette (rgbs_color from    *)
(* ScalePalette, rgbo_color from OffsetPalette).  An argument the case of  *)
(* the format never reads is left at the first entry.                      *)
(***************************************************************************)
\* the locals of a guard called with value_to_quantize = value, the pointers' targets
\* quantized_value and unquantized_value included; at is the position in its body
GuardCall(at, value) ==
    [ at |-> at,
      value |-> value,
      value_to_quantize |-> value,
      perform_loop |-> FALSE,
      quantval |-> OutOfBounds,
      uquantval |-> OutOfBounds,
      quantized_value |-> OutOfBounds,
      unquantized_value |-> OutOfBounds ]

\* the locals of quantize_rgb at position at: iters, the indices w of the last pass
LoopAt(at, iters, w) == [at |-> at, iters |-> iters, w |-> w]

NoLoop == LoopAt("idle", 0, NoWrites)

\* what a call holds of its own: its position, its copies of the colours, its out-buffer,
\* its return value, and what is recorded of it
Caller(at, c0, c1, out, tag, w, rd, attempts) ==
    [ pc |-> at, color0 |-> c0, color1 |-> c1, output |-> out, retval |-> tag,
      written |-> w, reads |-> rd, tried |-> attempts ]

NoCaller == Caller("idle", float4(0, 0, 0, 0), float4(0, 0, 0, 0), << >>, NoTag, {}, {}, << >>)

NumColors == 6

NumScaleColors == 3

NumOffsetColors == 3

Palette ==
    << float4(0, 0, 0, 0),
       float4(65535, 65535, 65535, 65535),
       float4(56540, 64250, 54998, 25700),
       float4(58853, 60138, 58339, 30840),
       float4(2570, 2570, 51400, 12850),
       float4(25700, 25700, 25700, 25700),
       float4(28270, 28270, 28270, 30840),
       float4(1000, 2000, 4000, 0),
       float4(500, 1000, 2000, 300),
       float4(30000, 31000, 29000, 64000),
       float4(40000, 100, 65535, 33000) >>

ScalePalette ==
    << float4(25700, 25700, 25700, 16),
       float4(300, 200, 100, 8),
       float4(65535, 30000, 100, 12),
       float4(0, 0, 0, 4),
       float4(51400, 2570, 2570, 20) >>

OffsetPalette ==
    << float4(30000, 31000, 29000, 300),
       float4(65535, 65535, 65535, 0),
       float4(1000, 200, 50, 20000),
       float4(60000, 100, 100, 100),
       float4(12000, 12100, 11900, 2000) >>

Colors == { Palette[i] : i \in 1 .. NumColors }

uses_colors(fmt) == fmt \notin { FMT_RGB_SCALE, FMT_HDR_RGB_SCALE }

Init ==
    /\ color_quantization_tables \in { QuantTables[up] : up \in BOOLEAN }
    /\ color_unquantization_tables = UnquantTables
    /\ pc = "pack_color_endpoints"
    /\ format \in RequestFormats
    /\ quantization_level \in Levels
    /\ color0 \in IF uses_colors(format) THEN Colors ELSE { Palette[1] }
    /\ color1 \in IF uses_colors(format) THEN Colors ELSE { Palette[1] }
    /\ rgbs_color \in IF format \in { FMT_RGB_SCALE, FMT_RGB_SCALE_ALPHA }
                      THEN { ScalePalette[i] : i \in 1 .. NumScaleColors }
                      ELSE { ScalePalette[1] }
    /\ rgbo_color \in IF format = FMT_HDR_RGB_SCALE
                      THEN { OffsetPalette[i] : i \in 1 .. NumOffsetColors }
                      ELSE { OffsetPalette[1] }
    /\ output = [slot \in 0 .. 7 |-> Stale(slot)]
    /\ retval = NoTag
    /\ written = {}
    /\ reads = {}
    /\ tried = << >>
    /\ guard = GuardCall("idle", 0)
    /\ loop = NoLoop
    /\ other = NoCaller

Next ==
    \/ Enter
    \/ TryRgbDeltaBlueContract
    \/ TryRgbDelta
    \/ TryRgbBlueContract
    \/ QuantizeRgb
    \/ TryRgbaDeltaBlueContract
    \/ TryRgbaDelta
    \/ TryRgbaBlueContract
    \/ QuantizeRgba
    \/ QuantizeRgbs
    \/ QuantizeHdrRgbo
    \/ QuantizeHdrRgb
    \/ QuantizeRgbsAlpha
    \/ TryHdrLuminanceSmallRange
    \/ QuantizeHdrLuminanceLargeRange
    \/ QuantizeLuminance
    \/ TryLuminanceAlphaDelta
    \/ QuantizeLuminanceAlpha
    \/ QuantizeHdrRgbLdrAlpha
    \/ QuantizeHdrRgbAlpha

Spec == Init /\ [][Next]_vars

(***************************************************************************)
(* The two retain-top-bits guards run on their own, one pass of the        *)
(* do-while loop per step, on every byte at every level.  pc names the     *)
(* guard; guard.value is the byte as passed in.                            *)
(***************************************************************************)
Guards ==
    { "quantize_and_unquantize_retain_top_two_bits",
      "quantize_and_unquantize_retain_top_four_bits" }

guard_pass(n) ==
    /\ guard.at = "do"
    /\ guard' = LET pass == retain_top_bits_pass(quantization_level,
                                                 guard.value_to_quantize, n)
                IN With(guard, [at |-> IF pass.perform_loop THEN "do" ELSE "leave"] @@ pass)
    /\ reads' = reads \cup { guard.value_to_quantize }
    /\ UNCHANGED << tables, pc, format, quantization_level, color0, color1, rgbs_color,
                    rgbo_color, output, retval, written, tried, loop, other >>

RetainTopTwoBitsPass ==
    /\ pc = "quantize_and_unquantize_retain_top_two_bits"
    /\ guard_pass(2)

RetainTopFourBitsPass ==
    /\ pc = "quantize_and_unquantize_retain_top_four_bits"
    /\ guard_pass(4)

\* *quantized_value = quantval; *unquantized_value = uquantval;
GuardLeave ==
    /\ pc \in Guards
    /\ guard.at = "leave"
    /\ guard' = [guard EXCEPT !.quantized_value = guard.quantval,
                              !.unquantized_value = guard.uquantval,
                              !.at = "return"]
    /\ UNCHANGED << tables, pc, format, quantization_level, color0, color1, rgbs_color,
                    rgbo_color, output, retval, written, reads, tried, loop, other >>

GuardInit ==
    /\ color_quantization_tables \in { QuantTables[up] : up \in BOOLEAN }
    /\ color_unquantization_tables = UnquantTables
    /\ pc \in Guards
    /\ quantization_level \in Levels
    /\ guard \in { GuardCall("do", value) : value \in 0 .. 255 }
    /\ format = FMT_HDR_RGB
    /\ color0 = Palette[1]
    /\ color1 = Palette[1]
    /\ rgbs_color = ScalePalette[1]
    /\ rgbo_color = OffsetPalette[1]
    /\ output = [slot \in 0 .. 7 |-> Stale(slot)]
    /\ retval = NoTag
    /\ written = {}
    /\ reads = {}
    /\ tried = << >>
    /\ loop = NoLoop
    /\ other = NoCaller

GuardNext ==
    \/ RetainTopTwoBitsPass
    \/ RetainTopFourBitsPass
    \/ GuardLeave

GuardSpec == GuardInit /\ [][GuardNext]_vars

\* a guard is one thread of control: it takes its next step as long as it has one
GuardLiveSpec == GuardInit /\ [][GuardNext]_vars /\ WF_vars(GuardNext)

(***************************************************************************)
(* Two callers with the same arguments and an out-buffer each.  The        *)
(* variables hold the call that is running; the other call is parked in    *)
(* other, and a switch of the running caller swaps the two.  The function  *)
(* has no statics and its arguments are passed by value, so the tables are *)
(* all that the two calls share.                                           *)
(***************************************************************************)
\* the second caller's buffer before the call: no codeword, and not what the first holds
OtherStale(slot) == 512 + slot

\* the pairs of colours the two callers are run on
CallerColors ==
    { << Palette[3], Palette[4] >>, << Palette[4], Palette[3] >>,
      << Palette[1], Palette[5] >>, << Palette[5], Palette[1] >>, << Palette[5], Palette[2] >> }

Switch ==
    /\ other.pc # "idle"
    /\ other' = Caller(pc, color0, color1, output, retval, written, reads, tried)
    /\ pc' = other.pc
    /\ color0' = other.color0
    /\ color1' = other.color1
    /\ output' = other.output
    /\ retval' = other.retval
    /\ written' = other.written
    /\ reads' = other.reads
    /\ tried' = other.tried
    /\ UNCHANGED << tables, format, quantization_level, rgbs_color, rgbo_color, guard, loop >>

TwoCallInit ==
    /\ color_quantization_tables \in { QuantTables[up] : up \in BOOLEAN }
    /\ color_unquantization_tables = UnquantTables
    /\ pc = "pack_color_endpoints"
    /\ format \in RequestFormats
    /\ quantization_level \in Levels
    /\ \E pair \in IF uses_colors(format) THEN CallerColors
                                            ELSE { << Palette[1], Palette[1] >> } :
            color0 = pair[1] /\ color1 = pair[2]
    /\ rgbs_color \in IF format \in { FMT_RGB_SCALE, FMT_RGB_SCALE_ALPHA }
                      THEN { ScalePalette[1], ScalePalette[2] }
                      ELSE { ScalePalette[1] }
    /\ rgbo_color \in IF format = FMT_HDR_RGB_SCALE
                      THEN { OffsetPalette[1], OffsetPalette[3] }
                      ELSE { OffsetPalette[1] }
    /\ output = [slot \in 0 .. 7 |-> Stale(slot)]
    /\ retval = NoTag
    /\ written = {}
    /\ reads = {}
    /\ tried = << >>
    /\ guard = GuardCall("idle", 0)
    /\ loop = NoLoop
    /\ other = Caller("pack_color_endpoints", color0, color1,
                      [slot \in 0 .. 7 |-> OtherStale(slot)], NoTag, {}, {}, << >>)

TwoCallNext ==
    \/ Switch
    \/ Enter
    \/ TryRgbDeltaBlueContract
    \/ TryRgbDelta
    \/ TryRgbBlueContract
    \/ QuantizeRgb
    \/ TryRgbaDeltaBlueContract
    \/ TryRgbaDelta
    \/ TryRgbaBlueContract
    \/ QuantizeRgba
    \/ QuantizeRgbs
    \/ QuantizeHdrRgbo
    \/ QuantizeHdrRgb
    \/ QuantizeRgbsAlpha
    \/ TryHdrLuminanceSmallRange
    \/ QuantizeHdrLuminanceLargeRange
    \/ QuantizeLuminance
    \/ TryLuminanceAlphaDelta
    \/ QuantizeLuminanceAlpha
    \/ QuantizeHdrRgbLdrAlpha
    \/ QuantizeHdrRgbAlpha

TwoCallSpec == TwoCallInit /\ [][TwoCallNext]_vars

(***************************************************************************)
(* Calls with negative components in the colours.                          *)
(***************************************************************************)
NegativeColors ==
    { float4(-25700, 25700, 25700, -1285), float4(0, 25700, 25700, 0),
      float4(12850, -2570, 30840, 25700), float4(12850, 0, 30840, 25700) }

NegativeScaleColors ==
    { float4(-25700, 25700, 25700, 16), float4(0, 25700, 25700, 16),
      float4(300, 200, 100, -8), float4(300, 200, 100, 0),
      float4(51400, -2570, 2570, 12), float4(51400, 0, 2570, 12) }

NegativeOffsetColors ==
    { float4(30000, 31000, 29000, -300), float4(30000, 31000, 29000, 0),
      float4(1000, 200, 50, -2000), float4(1000, 200, 50, 0),
      float4(-1000, 12000, 50, 2000), float4(0, 12000, 50, 2000) }

NegativeFormats == { FMT_LUMINANCE, FMT_RGB_SCALE, FMT_RGB_SCALE_ALPHA, FMT_HDR_RGB_SCALE }

NegativeInit ==
    /\ color_quantization_tables \in { QuantTables[up] : up \in BOOLEAN }
    /\ color_unquantization_tables = UnquantTables
    /\ pc = "pack_color_endpoints"
    /\ format \in NegativeFormats
    /\ quantization_level \in Levels
    /\ color0 \in IF format = FMT_LUMINANCE THEN NegativeColors ELSE { Palette[1] }
    /\ color1 \in IF format \in { FMT_LUMINANCE, FMT_RGB_SCALE_ALPHA }
                  THEN NegativeColors ELSE { Palette[1] }
    /\ rgbs_color \in IF format \in { FMT_RGB_SCALE, FMT_RGB_SCALE_ALPHA }
                      THEN NegativeScaleColors ELSE { ScalePalette[1] }
    /\ rgbo_color \in IF format = FMT_HDR_RGB_SCALE
                      THEN NegativeOffsetColors ELSE { OffsetPalette[1] }
    /\ output = [slot \in 0 .. 7 |-> Stale(slot)]
    /\ retval = NoTag
    /\ written = {}
    /\ reads = {}
    /\ tried = << >>
    /\ guard = GuardCall("idle", 0)
    /\ loop = NoLoop
    /\ other = NoCaller

NegativeNext ==
    \/ Enter
    \/ QuantizeLuminance
    \/ QuantizeRgbs
    \/ QuantizeRgbsAlpha
    \/ QuantizeHdrRgbo

NegativeSpec == NegativeInit /\ [][NegativeNext]_vars

(***************************************************************************)
(* quantize_rgb and quantize_rgba run on their own, one pass of the        *)
(* do-while loop of quantize_rgb per step.  pc names the encoder; the      *)
(* colours are as pack_color_endpoints hands them over, without negative   *)
(* components.                                                             *)
(***************************************************************************)
RgbEncoders == { "quantize_rgb", "quantize_rgba" }

\* the pairs of colours the loop is run on
LoopColors ==
    { << Palette[2], Palette[1] >>, << Palette[1], Palette[2] >>, << Palette[1], Palette[1] >>,
      << Palette[3], Palette[4] >>, << Palette[4], Palette[3] >>, << Palette[2], Palette[3] >>,
      << Palette[6], Palette[7] >>, << Palette[7], Palette[6] >>, << Palette[5], Palette[8] >> }

LiveColors ==
    { << Palette[2], Palette[1] >>, << Palette[1], Palette[2] >>,
      << Palette[3], Palette[4] >>, << Palette[4], Palette[3] >> }

\* quantize_rgba up to its call of quantize_rgb
RgbaAlpha ==
    /\ pc = "quantize_rgba"
    /\ loop.at = "alpha"
    /\ output' = [output EXCEPT ![6] = Quant(quantization_level, alpha_index(color0)),
                                ![7] = Quant(quantization_level, alpha_index(color1))]
    /\ written' = written \cup { 6, 7 }
    /\ reads' = reads \cup { alpha_index(color0), alpha_index(color1) }
    /\ loop' = LoopAt("do", 0, NoWrites)
    /\ UNCHANGED << tables, pc, format, quantization_level, color0, color1, rgbs_color,
                    rgbo_color, retval, tried, guard, other >>

\* one pass of the do-while loop; the pass counter of the model stops at LastRgbPass
RgbPass ==
    /\ pc \in RgbEncoders
    /\ loop.at = "do"
    /\ loop.iters <= LastRgbPass
    /\ LET pass == quantize_rgb_pass(clamp255f(color0.r, 257), clamp255f(color0.g, 257),
                                     clamp255f(color0.b, 257), clamp255f(color1.r, 257),
                                     clamp255f(color1.g, 257), clamp255f(color1.b, 257),
                                     quantization_level, loop.iters)
       IN /\ loop' = LoopAt(IF pass.again THEN "do" ELSE "leave", pass.iters, pass.w)
          /\ reads' = reads \cup pass.rd
    /\ UNCHANGED << tables, pc, format, quantization_level, color0, color1, rgbs_color,
                    rgbo_color, output, retval, written, tried, guard, other >>

\* the six writes after the loop
RgbLeave ==
    /\ pc \in RgbEncoders
    /\ loop.at = "leave"
    /\ output' = [slot \in 0 .. 7 |-> IF slot \in DOMAIN loop.w THEN loop.w[slot]
                                                               ELSE output[slot]]
    /\ written' = written \cup DOMAIN loop.w
    /\ tried' = Append(tried, [attempt |-> pc, ok |-> TRUE])
    /\ loop' = LoopAt("return", loop.iters, loop.w)
    /\ UNCHANGED << tables, pc, format, quantization_level, color0, color1, rgbs_color,
                    rgbo_color, retval, reads, guard, other >>

RgbInitOn(colors) ==
    /\ color_quantization_tables \in { QuantTables[up] : up \in BOOLEAN }
    /\ color_unquantization_tables = UnquantTables
    /\ pc \in RgbEncoders
    /\ format = IF pc = "quantize_rgb" THEN FMT_RGB ELSE FMT_RGBA
    /\ quantization_level \in Levels
    /\ \E pair \in colors : color0 = pair[1] /\ color1 = pair[2]
    /\ rgbs_color = ScalePalette[1]
    /\ rgbo_color = OffsetPalette[1]
    /\ output = [slot \in 0 .. 7 |-> Stale(slot)]
    /\ retval = NoTag
    /\ written = {}
    /\ reads = {}
    /\ tried = << >>
    /\ guard = GuardCall("idle", 0)
    /\ loop = LoopAt(IF pc = "quantize_rgb" THEN "do" ELSE "alpha", 0, NoWrites)
    /\ other = NoCaller

RgbInit == RgbInitOn(LoopColors)

RgbNext ==
    \/ RgbaAlpha
    \/ RgbPass
    \/ RgbLeave

RgbSpec == RgbInit /\ [][RgbNext]_vars

\* the encoder is one thread of control: it takes its next step as long as it has one
RgbLiveInit == RgbInitOn(LiveColors)

RgbLiveSpec == RgbLiveInit /\ [][RgbNext]_vars /\ WF_vars(RgbNext)

(***************************************************************************)
(* Properties of a call of pack_color_endpoints.                           *)
(***************************************************************************)
\* the length of the endpoint vector of a format tag
vector_length(tag) ==
    CASE tag \in { FMT_LUMINANCE, FMT_HDR_LUMINANCE_SMALL_RANGE,
                   FMT_HDR_LUMINANCE_LARGE_RANGE } -> 2
      [] tag \in { FMT_LUMINANCE_ALPHA, FMT_LUMINANCE_ALPHA_DELTA, FMT_RGB_SCALE,
                   FMT_HDR_RGB_SCALE } -> 4
      [] tag \in { FMT_RGB, FMT_RGB_DELTA, FMT_RGB_SCALE_ALPHA, FMT_HDR_RGB } -> 6
      [] tag \in { FMT_RGBA, FMT_RGBA_DELTA, FMT_HDR_RGB_LDR_ALPHA, FMT_HDR_RGBA } -> 8
      [] OTHER -> 0

\* the tags a request for fmt may be answered with
substitution_set(fmt) ==
    CASE fmt = FMT_RGB -> { FMT_RGB, FMT_RGB_DELTA }
      [] fmt = FMT_RGBA -> { FMT_RGBA, FMT_RGBA_DELTA }
      [] fmt = FMT_LUMINANCE_ALPHA -> { FMT_LUMINANCE_ALPHA, FMT_LUMINANCE_ALPHA_DELTA }
      [] fmt \in { FMT_HDR_LUMINANCE_SMALL_RANGE, FMT_HDR_LUMINANCE_LARGE_RANGE } ->
            { FMT_HDR_LUMINANCE_SMALL_RANGE, FMT_HDR_LUMINANCE_LARGE_RANGE }
      [] OTHER -> { fmt }

Returned == pc = "return"

\* the attempt that emitted: the last one run
Emitter == tried[Len(tried)].attempt

\* what the decoder reads in a slot of the returned vector
Decoded(slot) == Unquant(quantization_level, output[slot])

\* the sign-extended low 7 bits of a byte
SignExtend7(u) == IF BitAt(LowBits(u, 7), 6) = 1 THEN LowBits(u, 7) - 128 ELSE LowBits(u, 7)

ColorSum(c) == c.r + c.g + c.b

\* C1: for every level, input pair and requested format the call returns a tag of the
\* substitution set of the request (so some candidate succeeded), and every slot of the
\* returned tag's vector has been written with a codeword index.
AlwaysSucceeds ==
    Returned =>
        /\ retval \in substitution_set(format)
        /\ tried[Len(tried)].ok
        /\ \A slot \in 0 .. (vector_length(retval) - 1) :
              slot \in written /\ output[slot] # Stale(slot)

\* a request answered with a substituted tag, after the attempts before it failed
AlwaysSucceedsWitness ==
    /\ Returned
    /\ format = FMT_RGB
    /\ retval = FMT_RGB_DELTA
    /\ Len(tried) = 2
    /\ written = 0 .. 5

\* C2: every table read of the call is at a byte index 0..255, and every value the call
\* wrote to the out-buffer is the table entry at an index it read, so below the number
\* of codewords of the level.
IndexRange ==
    /\ reads \subseteq 0 .. 255
    /\ \A slot \in written :
          /\ \E v \in reads \cap (0 .. 255) : output[slot] = Quant(quantization_level, v)
          /\ output[slot] \in 0 .. (QuantCount(quantization_level) - 1)

\* a full HDR vector at a level with few codewords, read at both ends of the table
IndexRangeWitness ==
    /\ Returned
    /\ format = FMT_HDR_RGBA
    /\ quantization_level = 2
    /\ written = 0 .. 7
    /\ { 0, 255 } \subseteq reads

\* C3: a vector emitted by the plain quantize_rgb / quantize_rgba path decodes with the
\* sum of endpoint 0 (slots 0, 2, 4) at most the sum of endpoint 1 (slots 1, 3, 5),
\* whatever the order of the input pair.
PlainOrder ==
    (Returned /\ Emitter \in { "quantize_rgb", "quantize_rgba" }) =>
        Decoded(0) + Decoded(2) + Decoded(4) <= Decoded(1) + Decoded(3) + Decoded(5)

\* the plain path emitting for an inverted pair: color0 brighter than color1
PlainOrderWitness ==
    /\ Returned
    /\ Emitter = "quantize_rgb"
    /\ ColorSum(color0) > ColorSum(color1)
    /\ Decoded(0) + Decoded(2) + Decoded(4) < Decoded(1) + Decoded(3) + Decoded(5)

DeltaAttempts == { "try_quantize_rgb_delta", "try_quantize_rgba_delta" }

DeltaBlueContractAttempts ==
    { "try_quantize_rgb_delta_blue_contract", "try_quantize_rgba_delta_blue_contract" }

\* the sum of the sign-extended low 7 bits of the decoded offset slots
OffsetSum7 == SignExtend7(Decoded(1)) + SignExtend7(Decoded(3)) + SignExtend7(Decoded(5))

\* the six-bit signed offset the decoder takes from a decoded offset slot: bits 1..6
six_bit_offset(u) ==
    IF BitAt(u, 6) = 1 THEN LowBits(u \div 2, 6) - 64 ELSE LowBits(u \div 2, 6)

\* the sum of the decoder's offsets; below 0 the decoder blue-contracts the endpoints
OffsetSum6 == six_bit_offset(Decoded(1)) + six_bit_offset(Decoded(3)) + six_bit_offset(Decoded(5))

\* C4, the sum rule on the emitted slots: after try_quantize_rgb_delta succeeded the
\* sign-extended low 7 bits of the decoded offset slots sum to at least 0, after
\* try_quantize_rgb_delta_blue_contract succeeded to less than 0.
DeltaSumRule7 ==
    Returned =>
        /\ Emitter \in DeltaAttempts => OffsetSum7 >= 0
        /\ Emitter \in DeltaBlueContractAttempts => OffsetSum7 < 0

\* C4: the sum rule on the emitted slots, and hence a result with a delta tag is read by
\* the decoder as blue-contracted exactly when the blue-contract attempt emitted it.
DeltaSumRule ==
    /\ DeltaSumRule7
    /\ (Returned /\ retval \in { FMT_RGB_DELTA, FMT_RGBA_DELTA }) =>
           (OffsetSum6 < 0 <=> Emitter \in DeltaBlueContractAttempts)

\* try_quantize_rgb_delta emitted offsets whose 7-bit sum is not negative and whose
\* six-bit sum is
DeltaMisread ==
    /\ Returned
    /\ Emitter = "try_quantize_rgb_delta"
    /\ retval = FMT_RGB_DELTA
    /\ OffsetSum7 >= 0
    /\ OffsetSum6 < 0

(***************************************************************************)
(* Properties of a call of a retain-top-bits guard.                        *)
(***************************************************************************)
\* the number of top bits the guard at pc retains: MASK is 0xC0 or 0xF0
GuardBits == IF pc = "quantize_and_unquantize_retain_top_two_bits" THEN 2 ELSE 4

GuardReturned == pc \in Guards /\ guard.at = "return"

\* C5: for every call of a guard with byte v as first passed in, at every level, the
\* returned unquantized value has the masked bits of v.
RetainsBitsPassedIn ==
    GuardReturned =>
        TopBits(guard.unquantized_value, GuardBits) = TopBits(guard.value, GuardBits)

\* the two-bit guard called with 128 at level 0 counts down to 63 and returns 0
RetainLosesBits ==
    /\ GuardReturned
    /\ pc = "quantize_and_unquantize_retain_top_two_bits"
    /\ quantization_level = 0
    /\ guard.value = 128
    /\ guard.value_to_quantize = 63
    /\ guard.unquantized_value = 0

\* C6: a guard returns q = quant[L][v_final] and u = unquant[L][q] whose masked bits are
\* those of v_final, the byte its loop stopped at; the loop does not leave while the
\* masked bits of the value it quantized and of its round trip differ.
RetainsBitsOfFinal ==
    /\ (pc \in Guards /\ guard.at = "leave") =>
          TopBits(guard.uquantval, GuardBits) = TopBits(guard.value_to_quantize, GuardBits)
    /\ GuardReturned =>
          /\ guard.quantized_value = Quant(quantization_level, guard.value_to_quantize)
          /\ guard.unquantized_value = Unquant(quantization_level, guard.quantized_value)
          /\ TopBits(guard.unquantized_value, GuardBits)
                = TopBits(guard.value_to_quantize, GuardBits)

\* a guard that returned after decrementing the byte
RetainsBitsOfFinalWitness ==
    /\ GuardReturned
    /\ pc = "quantize_and_unquantize_retain_top_four_bits"
    /\ guard.value_to_quantize < guard.value
    /\ guard.value_to_quantize > 0
    /\ guard.quantized_value = Quant(quantization_level, guard.value_to_quantize)

(***************************************************************************)
(* The dispatcher's choices.                                               *)
(***************************************************************************)
\* the candidates of a request for RGB or RGBA at level L, in order
rgb_attempts(fmt, L) ==
    LET delta == IF fmt = FMT_RGB
                 THEN << "try_quantize_rgb_delta_blue_contract", "try_quantize_rgb_delta" >>
                 ELSE << "try_quantize_rgba_delta_blue_contract", "try_quantize_rgba_delta" >>
        plain == IF fmt = FMT_RGB
                 THEN << "try_quantize_rgb_blue_contract", "quantize_rgb" >>
                 ELSE << "try_quantize_rgba_blue_contract", "quantize_rgba" >>
    IN IF L <= 18 THEN delta \o plain ELSE plain

Attempts == [i \in 1 .. Len(tried) |-> tried[i].attempt]

\* C7: a request for RGB or RGBA runs its candidates in order (the two delta attempts
\* only at L <= 18), stops at the first success, and returns the delta tag if a delta
\* attempt succeeded and the requested tag otherwise.
RgbAttemptOrder ==
    (format \in { FMT_RGB, FMT_RGBA } /\ pc # "pack_color_endpoints") =>
        LET order == rgb_attempts(format, quantization_level)
        IN /\ Len(tried) <= Len(order)
           /\ Attempts = SubSeq(order, 1, Len(tried))
           /\ \A i \in 1 .. (Len(tried) - 1) : ~tried[i].ok
           /\ IF Returned
              THEN /\ tried # << >>
                   /\ tried[Len(tried)].ok
                   /\ retval = IF Emitter \in DeltaAttempts \cup DeltaBlueContractAttempts
                               THEN (IF format = FMT_RGB THEN FMT_RGB_DELTA ELSE FMT_RGBA_DELTA)
                               ELSE format
              ELSE /\ \A i \in 1 .. Len(tried) : ~tried[i].ok
                   /\ pc = order[Len(tried) + 1]
           /\ quantization_level > 18 => retval \notin { FMT_RGB_DELTA, FMT_RGBA_DELTA }

\* the blue-contract attempt emitting after both delta attempts failed
RgbAttemptOrderWitness ==
    /\ Returned
    /\ format = FMT_RGBA
    /\ Attempts = << "try_quantize_rgba_delta_blue_contract", "try_quantize_rgba_delta",
                     "try_quantize_rgba_blue_contract" >>
    /\ retval = FMT_RGBA

\* C8: a request for LUMINANCE_ALPHA returns LUMINANCE_ALPHA_DELTA exactly when L <= 18
\* and try_quantize_luminance_alpha_delta succeeds; otherwise it emits the plain
\* luminance-alpha encoding and returns LUMINANCE_ALPHA.
LuminanceAlphaChoice ==
    (Returned /\ format = FMT_LUMINANCE_ALPHA) =>
        IF /\ quantization_level <= 18
           /\ try_quantize_luminance_alpha_delta(color0, color1, quantization_level).ok
        THEN /\ retval = FMT_LUMINANCE_ALPHA_DELTA
             /\ Emitter = "try_quantize_luminance_alpha_delta"
        ELSE /\ retval = FMT_LUMINANCE_ALPHA
             /\ Emitter = "quantize_luminance_alpha"
             /\ \A slot \in 0 .. 3 :
                   output[slot]
                     = quantize_luminance_alpha(color0, color1, quantization_level).w[slot]

\* the delta attempt succeeding for a pair of distinct colours
LuminanceAlphaChoiceWitness ==
    /\ Returned
    /\ format = FMT_LUMINANCE_ALPHA
    /\ retval = FMT_LUMINANCE_ALPHA_DELTA
    /\ color0 # color1
    /\ Len(tried) = 1

\* C9: a request for either HDR luminance tag runs the small-range attempt first and
\* returns HDR_LUMINANCE_SMALL_RANGE if it succeeds, otherwise runs the large-range
\* encoder and returns HDR_LUMINANCE_LARGE_RANGE, whichever tag was requested.
HdrLuminanceChoice ==
    (Returned /\ format \in { FMT_HDR_LUMINANCE_SMALL_RANGE, FMT_HDR_LUMINANCE_LARGE_RANGE }) =>
        IF try_quantize_hdr_luminance_small_range3(color0, color1, quantization_level).ok
        THEN /\ retval = FMT_HDR_LUMINANCE_SMALL_RANGE
             /\ Attempts = << "try_quantize_hdr_luminance_small_range3" >>
        ELSE /\ retval = FMT_HDR_LUMINANCE_LARGE_RANGE
             /\ Attempts = << "try_quantize_hdr_luminance_small_range3",
                              "quantize_hdr_luminance_large_range3" >>

\* the large range requested and the small range returned
HdrLuminanceChoiceWitness ==
    /\ Returned
    /\ format = FMT_HDR_LUMINANCE_LARGE_RANGE
    /\ retval = FMT_HDR_LUMINANCE_SMALL_RANGE

\* C10: the call writes no slot at or beyond the vector length of the returned tag, and
\* each such slot holds at return the value it held before the call, also after failed
\* attempts.
WritesOnlyVector ==
    Returned =>
        \A slot \in 0 .. 7 :
            slot >= vector_length(retval) => slot \notin written /\ output[slot] = Stale(slot)

\* a six-slot vector emitted by the fourth candidate, after three failed
WritesOnlyVectorWitness ==
    /\ Returned
    /\ format = FMT_RGB
    /\ Len(tried) = 4
    /\ written = 0 .. 5
    /\ output[6] = Stale(6)
    /\ output[7] = Stale(7)

\* C11: pack_color_endpoints is a pure function of its arguments and the tables: of two
\* calls with the same arguments and an out-buffer each, run one after the other or
\* interleaved, both return the same tag and write the same vector; no step writes the
\* tables, and no step of the running call touches what the parked call holds.
BothReturned == pc = "return" /\ other.pc = "return"

NonNegative(c) == c.r >= 0 /\ c.g >= 0 /\ c.b >= 0 /\ c.a >= 0

Entered == pc # "pack_color_endpoints"

NonNegativeChannels ==
    Entered => /\ NonNegative(color0)
               /\ NonNegative(color1)
               /\ NonNegative(rgbs_color)
               /\ NonNegative(rgbo_color)

\* what holds of the code: the two endpoint colours are clamped before any attempt runs
EndpointColorsClamped == Entered => NonNegative(color0) /\ NonNegative(color1)

\* an RGB_SCALE call whose rgbs_color has a negative component returned a vector that is
\* not the vector of the colour with the component replaced by 0
NegativeScaleEncoded ==
    /\ Returned
    /\ format = FMT_RGB_SCALE
    /\ ~NonNegative(rgbs_color)
    /\ \E slot \in 0 .. 3 :
           output[slot] # quantize_rgbs_new(clamp_color(rgbs_color), quantization_level).w[slot]

\* C13: quantize_rgb, and quantize_rgba built on it, cannot fail: at every level and for
\* every pair of colours the bias-and-retry loop eventually exits and the function
\* returns with a codeword in every slot of its vector.
RgbReturned == pc \in RgbEncoders /\ loop.at = "return"

RgbVector == 0 .. (IF pc = "quantize_rgba" THEN 7 ELSE 5)

PlainRgbReturns ==
    <>(/\ RgbReturned
       /\ \A slot \in RgbVector :
              slot \in written /\ output[slot] \in 0 .. (QuantCount(quantization_level) - 1))

\* a call that returned after its loop had to retry
PlainRgbReturnsWitness ==
    /\ RgbReturned
    /\ pc = "quantize_rgba"
    /\ loop.iters > 1
    /\ written = 0 .. 7

GuardPasses == Cardinality(reads)

GuardLoopTerminates ==
    /\ <>GuardReturned
    /\ [](pc \in Guards => /\ guard.value_to_quantize \in 0 .. guard.value
                            /\ GuardPasses <= 256
                            /\ GuardPasses <= guard.value - guard.value_to_quantize + 1)
    /\ [][/\ guard'.value_to_quantize <= guard.value_to_quantize
          /\ guard.at = "do" /\ guard'.at = "do" =>
                 guard'.value_to_quantize < guard.value_to_quantize
          /\ guard.at = "do" /\ guard.value_to_quantize = 0 => guard'.at = "leave"]_vars

\* the four-bit guard at the coarsest level, counting 0xEF down to 0x0F in 225 passes
GuardLoopTerminatesWitness ==
    /\ GuardReturned
    /\ pc = "quantize_and_unquantize_retain_top_four_bits"
    /\ guard.value = 239
    /\ guard.value_to_quantize = 15
    /\ GuardPasses = 225

\* C16: try_quantize_rgb_blue_contract fails whenever an inverse-blue-contracted
\* component (r + (r - b), g + (g - b), b) of either endpoint lies outside [0, 255], and
\* whenever the unquantized sum of endpoint 1 is not strictly greater than that of
\* endpoint 0; on success it stores the endpoints swapped, so that the decoded sum of
\* slots 0, 2, 4 is strictly greater than that of slots 1, 3, 5.
BlueContractAttempts == { "try_quantize_rgb_blue_contract", "try_quantize_rgba_blue_contract" }

\* the inverse-blue-contracted components of a colour, over 257
Contracted(c) == << c.r + (c.r - c.b), c.g + (c.g - c.b), c.b >>

InByteRange(x) == \A i \in 1 .. 3 : x[i] >= 0 /\ x[i] <= 255 * 257

\* the codewords of the rounded components, and what they decode to
ContractedCodewords(c) ==
    [i \in 1 .. 3 |-> Quant(quantization_level, flt2int_rtn(Contracted(c)[i], 257))]

ContractedSum(c) ==
    Unquant(quantization_level, ContractedCodewords(c)[1])
        + Unquant(quantization_level, ContractedCodewords(c)[2])
        + Unquant(quantization_level, ContractedCodewords(c)[3])

BlueContractFits ==
    /\ InByteRange(Contracted(color0))
    /\ InByteRange(Contracted(color1))
    /\ ContractedSum(color1) > ContractedSum(color0)

BlueContractRule ==
    /\ \A i \in 1 .. Len(tried) :
           tried[i].attempt \in BlueContractAttempts => (tried[i].ok <=> BlueContractFits)
    /\ Returned /\ Emitter \in BlueContractAttempts =>
           /\ \A i \in 1 .. 3 : /\ output[2 * i - 2] = ContractedCodewords(color1)[i]
                                 /\ output[2 * i - 1] = ContractedCodewords(color0)[i]
           /\ Decoded(0) + Decoded(2) + Decoded(4) > Decoded(1) + Decoded(3) + Decoded(5)

\* a request for RGB answered by the blue-contract attempt after the two delta attempts
\* had failed
BlueContractRuleWitness ==
    /\ Returned
    /\ format = FMT_RGB
    /\ Emitter = "try_quantize_rgb_blue_contract"
    /\ Len(tried) = 3
    /\ Decoded(0) + Decoded(2) + Decoded(4) > Decoded(1) + Decoded(3) + Decoded(5)

\* the bytes of endpoint 0 and endpoint 1 that a delta attempt encodes in the slots
\* slot and slot + 1
DeltaChannel(v0, v1, slot) == [ v0 |-> v0, v1 |-> v1, slot |-> slot ]

ByteOf(x) == flt2int_rtn(clamp255f(x, 257), 257)

RgbDeltaChannels ==
    { DeltaChannel(ByteOf(color0.r), ByteOf(color1.r), 0),
      DeltaChannel(ByteOf(color0.g), ByteOf(color1.g), 2),
      DeltaChannel(ByteOf(color0.b), ByteOf(color1.b), 4) }

\* the blue-contract form encodes the switched, inverse-blue-contracted endpoints
RgbDeltaBlueContractChannels ==
    { DeltaChannel(flt2int_rtn(Contracted(color1)[i], 257),
                   flt2int_rtn(Contracted(color0)[i], 257), 2 * i - 2) : i \in 1 .. 3 }

\* the channels of the delta attempt run last that succeeded; the alpha channel of the
\* RGBA forms also when the RGB half then failed
SucceededDeltaChannels ==
    LET L == quantization_level
        ok == tried[Len(tried)].ok
    IN CASE Emitter = "try_quantize_rgb_delta" /\ ok -> RgbDeltaChannels
         [] Emitter = "try_quantize_rgb_delta_blue_contract" /\ ok -> RgbDeltaBlueContractChannels
         [] Emitter = "try_quantize_luminance_alpha_delta" /\ ok ->
                { DeltaChannel(luminance_index(color0), luminance_index(color1), 0),
                  DeltaChannel(alpha_index(color0), alpha_index(color1), 2) }
         [] Emitter = "try_quantize_rgba_delta" /\ try_quantize_alpha_delta(color0, color1, L).ok ->
                { DeltaChannel(alpha_index(color0), alpha_index(color1), 6) }
                    \cup (IF ok THEN RgbDeltaChannels ELSE {})
         [] Emitter = "try_quantize_rgba_delta_blue_contract"
                /\ try_quantize_alpha_delta(color1, color0, L).ok ->
                { DeltaChannel(alpha_index(color1), alpha_index(color0), 6) }
                    \cup (IF ok THEN RgbDeltaBlueContractChannels ELSE {})
         [] OTHER -> {}

\* the effective 9-bit base of a channel: the decoded base slot under bit 8 of the byte
\* of endpoint 0 as unorm9
EffectiveBase(ch) == Decoded(ch.slot) + 256 * BitAt(ch.v0 * 2, 8)

RawOffset(ch) == ch.v1 * 2 - EffectiveBase(ch)

PackedOffset(ch) == LowBits(RawOffset(ch), 7) + 128 * BitAt(EffectiveBase(ch), 8)

\* C17: whenever a delta attempt succeeds (try_quantize_rgb_delta,
\* try_quantize_rgb_delta_blue_contract, try_quantize_alpha_delta,
\* try_quantize_luminance_alpha_delta), for every channel the raw offset lies in
\* [-64, 63], bits 0xC0 of the packed offset byte are unchanged by the round trip through
\* the tables, and the effective 9-bit base plus the sign-extended decoded offset lies
\* in [0, 511].
DeltaChannelsLegal ==
    Len(tried) > 0 =>
        \A ch \in SucceededDeltaChannels :
            /\ RawOffset(ch) >= -64 /\ RawOffset(ch) <= 63
            /\ output[ch.slot + 1] = Quant(quantization_level, PackedOffset(ch))
            /\ TopBits(Decoded(ch.slot + 1), 2) = TopBits(PackedOffset(ch), 2)
            /\ EffectiveBase(ch) + SignExtend7(Decoded(ch.slot + 1)) >= 0
            /\ EffectiveBase(ch) + SignExtend7(Decoded(ch.slot + 1)) <= 511

\* a delta attempt succeeded below the finest level with a negative raw offset in some
\* channel and a base with bit 8 set in some channel
DeltaChannelsLegalWitness ==
    /\ Len(tried) > 0
    /\ quantization_level < 20
    /\ \E ch \in SucceededDeltaChannels : RawOffset(ch) < 0
    /\ \E ch \in SucceededDeltaChannels : EffectiveBase(ch) > 255

\* lum0, lum1 of quantize_luminance and quantize_luminance_alpha, over 771
Lum(c) == clamp255f(ColorSum(c), 771)

LuminanceEncoders == { "quantize_luminance", "quantize_luminance_alpha" }

SmallRangeLowval(flag) ==
    Clamp((hdr_luminance_pair(color0, color1).ilum0 + Pow2(4 + flag)) \div Pow2(5 + flag),
          0, Pow2(11 - flag) - 1)

SmallRangeHighval(flag) ==
    Clamp((hdr_luminance_pair(color0, color1).ilum1 + Pow2(4 + flag)) \div Pow2(5 + flag),
          0, Pow2(11 - flag) - 1)

SmallRangeV0(flag) == LowBits(SmallRangeLowval(flag), 7) + 128 * flag

\* lowval with its low seven bits replaced by the round-tripped ones
SmallRangeBase(flag) ==
    ClearLow(SmallRangeLowval(flag), 7)
        + LowBits(Unquant(quantization_level, Quant(quantization_level, SmallRangeV0(flag))), 7)

SmallRangeDiff(flag) == SmallRangeHighval(flag) - SmallRangeBase(flag)

\* ((lowval >> 3) & 0xF0) | diffval, resp. ((lowval >> 2) & 0xE0) | diffval
SmallRangeV1(flag) ==
    TopBits(SmallRangeBase(flag) \div Pow2(3 - flag), 4 - flag) + SmallRangeDiff(flag)

\* the submode survives: bit 7 of v0 and the high bits of v1 come back from the tables,
\* and the difference fits the low bits of v1
SmallRangeSurvives(flag) ==
    LET L == quantization_level
    IN /\ BitAt(Unquant(L, Quant(L, SmallRangeV0(flag))), 7) = flag
       /\ SmallRangeDiff(flag) >= 0
       /\ SmallRangeDiff(flag) <= 16 * (1 + flag) - 1
       /\ TopBits(Unquant(L, Quant(L, SmallRangeV1(flag))), 4 - flag)
              = TopBits(SmallRangeV1(flag), 4 - flag)

SmallRangeEmitted == IF SmallRangeSurvives(0) THEN 0 ELSE 1

\* C19: whenever try_quantize_hdr_luminance_small_range3 succeeds, bit 7 of
\* unquant[L][out[0]] is 0 when the high-precision submode was emitted and 1 when the
\* low-precision submode was emitted, and the high bits of the second byte (mask 0xF0
\* in high precision, 0xE0 in low precision) are unchanged by the round trip; when
\* neither submode meets these conditions the attempt fails.
SmallRangeSubmodes ==
    /\ \A i \in 1 .. Len(tried) :
           tried[i].attempt = "try_quantize_hdr_luminance_small_range3" =>
               (tried[i].ok <=>
                    /\ hdr_luminance_pair(color0, color1).ilum1
                           - hdr_luminance_pair(color0, color1).ilum0 <= 2048
                    /\ SmallRangeSurvives(0) \/ SmallRangeSurvives(1))
    /\ (Returned /\ Emitter = "try_quantize_hdr_luminance_small_range3") =>
           /\ output[0] = Quant(quantization_level, SmallRangeV0(SmallRangeEmitted))
           /\ output[1] = Quant(quantization_level, SmallRangeV1(SmallRangeEmitted))
           /\ BitAt(Decoded(0), 7) = SmallRangeEmitted
           /\ TopBits(Decoded(1), 4 - SmallRangeEmitted)
                  = TopBits(SmallRangeV1(SmallRangeEmitted), 4 - SmallRangeEmitted)

\* the attempt emitted the low-precision submode below the finest level
SmallRangeSubmodesWitness ==
    /\ Returned
    /\ Emitter = "try_quantize_hdr_luminance_small_range3"
    /\ quantization_level < 20
    /\ SmallRangeEmitted = 1
    /\ BitAt(Decoded(0), 7) = 1

(***************************************************************************)
(* quantize_hdr_alpha3 on pairs of alphas, reached through a request for   *)
(* HDR_RGBA; the RGB part of the two colours is the same throughout.       *)
(***************************************************************************)
AlphaValues == { 0, 512, 1024, 1536, 4096, 20000, 33000, 65535 }

AlphaInit ==
    /\ color_quantization_tables \in { QuantTables[up] : up \in BOOLEAN }
    /\ color_unquantization_tables = UnquantTables
    /\ pc = "pack_color_endpoints"
    /\ format = FMT_HDR_RGBA
    /\ quantization_level \in Levels
    /\ color0 \in { float4(1000, 2000, 4000, a) : a \in AlphaValues }
    /\ color1 \in { float4(1000, 2000, 4000, a) : a \in AlphaValues }
    /\ rgbs_color = ScalePalette[1]
    /\ rgbo_color = OffsetPalette[1]
    /\ output = [slot \in 0 .. 7 |-> Stale(slot)]
    /\ retval = NoTag
    /\ written = {}
    /\ reads = {}
    /\ tried = << >>
    /\ guard = GuardCall("idle", 0)
    /\ loop = NoLoop
    /\ other = NoCaller

AlphaNext == Enter \/ QuantizeHdrRgbAlpha

AlphaSpec == AlphaInit /\ [][AlphaNext]_vars

\* ialpha0, ialpha1: the alphas clamped to [0, 65280]
AlphaIn(c) == Clamp(c.a, 0, 65280)

\* val0, val1 of submode i
AlphaVal(c, i) == (AlphaIn(c) + Pow2(7 - i)) \div Pow2(8 - i)

AlphaV6(i) == LowBits(AlphaVal(color0, i), 7) + 128 * (i % 2)

AlphaV6Decoded(i) == Unquant(quantization_level, Quant(quantization_level, AlphaV6(i)))

\* val0 after its low seven bits are replaced by the round-tripped ones
AlphaBase(i) == ClearLow(AlphaVal(color0, i), 7) + LowBits(AlphaV6Decoded(i), 7)

AlphaDiff(i) == AlphaVal(color1, i) - AlphaBase(i)

AlphaV7(i) ==
    128 * BitAt(i, 1) + (AlphaBase(i) \div 128) * Pow2(6 - i) + LowBits(AlphaDiff(i), 6 - i)

\* submode i qualifies when the least difference it takes is least
AlphaQualifies(i, least) ==
    /\ BitAt(AlphaV6Decoded(i), 7) = BitAt(AlphaV6(i), 7)
    /\ AlphaDiff(i) >= least
    /\ AlphaDiff(i) < Pow2(5 - i)
    /\ TopBits(Unquant(quantization_level, Quant(quantization_level, AlphaV7(i))), 3 + i)
           = TopBits(AlphaV7(i), 3 + i)

\* the vector holds the first of the submodes 2, 1, 0 that qualifies, and the flat
\* encoding when none does; slack is 1 when a difference of -cutoff is turned down
AlphaSubmodeRule(slack) ==
    LET L == quantization_level
        qualifying == { i \in 0 .. 2 : AlphaQualifies(i, slack - Pow2(5 - i)) }
        first == CHOOSE i \in qualifying : \A j \in qualifying : j <= i
    IN (Returned /\ Emitter = "quantize_hdr_rgb_alpha3") =>
           IF qualifying = {}
           THEN /\ output[6] = Quant(L, Or80((AlphaIn(color0) + 256) \div 512))
                /\ output[7] = Quant(L, Or80((AlphaIn(color1) + 256) \div 512))
           ELSE /\ output[6] = Quant(L, AlphaV6(first))
                /\ output[7] = Quant(L, AlphaV7(first))

\* C20 as stated: submode i is emitted only if |diffval| < 32 >> i.
HdrAlphaSubmodesWithinCutoff == AlphaSubmodeRule(1)

\* C20: quantize_hdr_alpha3 tries the delta submodes in the order i = 2, 1, 0 and emits
\* submode i only if bit 7 of v6 survives the round trip, -(32 >> i) <= diffval < 32 >> i
\* for diffval = val1 - val0 (val0 taken after its low seven bits are replaced by the
\* round-tripped ones), and the bits of v7 selected by testbits[i] survive the round
\* trip; if no submode qualifies it emits the flat encoding.
HdrAlphaSubmodes == AlphaSubmodeRule(0)

\* submode 2 emitted with a difference of -8, its cutoff being 8
HdrAlphaSubmodesWitness ==
    /\ Returned
    /\ Emitter = "quantize_hdr_rgb_alpha3"
    /\ AlphaQualifies(2, -8)
    /\ AlphaDiff(2) = -8
    /\ output[6] = Quant(quantization_level, AlphaV6(2))
    /\ output[7] = Quant(quantization_level, AlphaV7(2))
    /\ BitAt(Decoded(6), 7) = 0
    /\ BitAt(Decoded(7), 7) = 1

(***************************************************************************)
(* quantize_hdr_rgbo3 on colours that spread over its modes, reached       *)
(* through a request for HDR_RGB_SCALE.  A colour has its largest          *)
(* component first, second or third, the other two below it by gap, and    *)
(* the offset in its fourth component.                                     *)
(***************************************************************************)
RgboMajors == { 40000, 65535 }

RgboGaps == { 500, 1500, 5000, 20000 }

RgboOffsets == { 0, 300, 8000, 20000 }

RgboColor(major, gap, first, offset) ==
    float4(IF first = 0 THEN major ELSE major - gap,
           IF first = 1 THEN major ELSE major - gap,
           IF first = 2 THEN major ELSE major - gap,
           offset)

RgboColors ==
    { RgboColor(major, gap, first, offset) :
          major \in RgboMajors, gap \in RgboGaps, first \in 0 .. 2, offset \in RgboOffsets }

RgboInit ==
    /\ color_quantization_tables \in { QuantTables[up] : up \in BOOLEAN }
    /\ color_unquantization_tables = UnquantTables
    /\ pc = "pack_color_endpoints"
    /\ format = FMT_HDR_RGB_SCALE
    /\ quantization_level \in Levels
    /\ color0 = Palette[1]
    /\ color1 = Palette[1]
    /\ rgbs_color = ScalePalette[1]
    /\ rgbo_color \in RgboColors
    /\ output = [slot \in 0 .. 7 |-> Stale(slot)]
    /\ retval = NoTag
    /\ written = {}
    /\ reads = {}
    /\ tried = << >>
    /\ guard = GuardCall("idle", 0)
    /\ loop = NoLoop
    /\ other = NoCaller

RgboNext == Enter \/ QuantizeHdrRgbo

RgboSpec == RgboInit /\ [][RgboNext]_vars

RgboReturned == Returned /\ Emitter = "quantize_hdr_rgbo3"

\* the locals of quantize_hdr_rgbo3 at its return
RgboLocals == quantize_hdr_rgbo3(rgbo_color, quantization_level).locals

\* the three bytes quantize_hdr_rgbo3 hands to the guards for the slots 0, 1, 2
RgboHanded ==
    IF RgboLocals.mode < 5
    THEN << RgboLocals.r_lowbits, RgboLocals.g_lowbits, RgboLocals.b_lowbits >>
    ELSE SubSeq(RgboLocals.encvals, 1, 3)

\* the mode descriptor carried by three bytes
RgboDescriptorOf(bytes) ==
    BitAt(bytes[1], 6) + 2 * BitAt(bytes[1], 7) + 4 * BitAt(bytes[2], 7) + 8 * BitAt(bytes[3], 7)

RgboDescriptor == RgboDescriptorOf(RgboHanded)

\* the descriptor as it is read off the emitted vector
RgboDecodedDescriptor == RgboDescriptorOf(<< Decoded(0), Decoded(1), Decoded(2) >>)

\* the 15 descriptors of the modes 0..4 and the one of mode #5, as pairs
\* << mode, majcomp >>; mode #5 has no major component
RgboPairOf(descriptor) ==
    CASE descriptor < 12 -> << descriptor % 4, descriptor \div 4 >>
      [] descriptor < 15 -> << 4, descriptor - 12 >>
      [] OTHER -> << 5, 3 >>

\* C21: the 4-bit mode descriptor handed to the guards (bits 7:6 of the packed R byte
\* as bits 1:0, bit 7 of the packed G byte as bit 2, bit 7 of the packed B byte as
\* bit 3) is different for every pair (mode, majcomp) with mode in 0..4 and majcomp in
\* 0..2, and none of them equals the descriptor 0xF of the mode-5 fallback: the mode
\* and the major component are read back from the descriptor of the bytes handed in.
RgboDescriptorRecovers ==
    RgboReturned =>
        /\ RgboPairOf(RgboDescriptor)[1] = RgboLocals.mode
        /\ RgboLocals.mode < 5 => RgboPairOf(RgboDescriptor)[2] = RgboLocals.majcomp
        /\ RgboLocals.mode = 5 => RgboDescriptor = 15

\* mode 4 emitted for a colour whose second component is the largest, at a level that
\* does not keep every byte
RgboDescriptorRecoversWitness ==
    /\ RgboReturned
    /\ quantization_level < 20
    /\ RgboLocals.mode = 4
    /\ RgboLocals.majcomp = 1
    /\ RgboDescriptor = 13

\* r_bits of the emitted mode: the number of bits of r_intval the vector stores
RgboRedBits == rgbo_mode_bits(RgboLocals.mode)[1]

\* C23: whichever of the modes 0..4 quantize_hdr_rgbo3 emits, r_intval is below
\* 2^r_bits of that mode, so that the stored fields reproduce r_intval exactly.
RgboRedFits ==
    RgboReturned /\ RgboLocals.mode < 5 => RgboLocals.r_intval < Pow2(RgboRedBits)

\* r_intval is 2^r_bits or more exactly when the major component is within half a step
\* of mode_rscale below 65536, and then its bits from bit 6 up are those of 2^r_bits
RgboRedBound ==
    RgboReturned /\ RgboLocals.mode < 5 =>
        /\ RgboLocals.r_intval \div 64 <= Pow2(RgboRedBits) \div 64
        /\ RgboLocals.r_intval >= Pow2(RgboRedBits)
               <=> 2 * RgboLocals.color.r >= 2 * 65536 - RgboLocals.mode_rscale

\* mode 0 emitted with r_intval = 2048 at the level that keeps every byte: the six low
\* bits handed to the guard and the bits 6..10 are all 0
RgboRedOverflows ==
    /\ RgboReturned
    /\ quantization_level = 20
    /\ RgboLocals.mode = 0
    /\ RgboLocals.r_intval = 2048
    /\ LowBits(Decoded(0), 6) = 0
    /\ rgbo_color = float4(65535, 65035, 65035, 0)

(***************************************************************************)
(* quantize_hdr_rgb3 on endpoint pairs of every shape: the brighter        *)
(* endpoint has one largest component and the other two a gap below it,    *)
(* the darker endpoint lies a distance below the brighter one, with a      *)
(* skew of opposite sign on its two minor components.                      *)
(***************************************************************************)
HdrRgbMajors == { 45000, 65535 }

\* << gap, distance, skew >>
HdrRgbShapes ==
    { << 500, 1000, 100 >>, << 1500, 1000, 100 >>, << 1500, 5000, 600 >>,
      << 5000, 1000, 300 >>, << 5000, 5000, 1500 >>, << 3000, 5000, 3000 >>,
      << 20000, 5000, 3000 >>, << 10000, 5000, 6000 >>, << 40000, 20000, 0 >> }

HdrRgbBright(major, shape, first) ==
    float4(IF first = 0 THEN major ELSE major - shape[1],
           IF first = 1 THEN major ELSE major - shape[1],
           IF first = 2 THEN major ELSE major - shape[1],
           0)

HdrRgbDark(major, shape, first) ==
    LET bright == swizzle(HdrRgbBright(major, shape, first), first)
    IN swizzle(float4(bright.r - shape[2],
                      bright.g - shape[2] - shape[3],
                      bright.b - shape[2] + shape[3],
                      0),
               first)

HdrRgbInit ==
    /\ color_quantization_tables \in { QuantTables[up] : up \in BOOLEAN }
    /\ color_unquantization_tables = UnquantTables
    /\ pc = "pack_color_endpoints"
    /\ format = FMT_HDR_RGB
    /\ quantization_level \in Levels
    /\ \E major \in HdrRgbMajors, shape \in HdrRgbShapes, first \in 0 .. 2 :
           /\ color0 = HdrRgbDark(major, shape, first)
           /\ color1 = HdrRgbBright(major, shape, first)
    /\ rgbs_color = ScalePalette[1]
    /\ rgbo_color = OffsetPalette[1]
    /\ output = [slot \in 0 .. 7 |-> Stale(slot)]
    /\ retval = NoTag
    /\ written = {}
    /\ reads = {}
    /\ tried = << >>
    /\ guard = GuardCall("idle", 0)
    /\ loop = NoLoop
    /\ other = NoCaller

HdrRgbNext == Enter \/ QuantizeHdrRgb

HdrRgbSpec == HdrRgbInit /\ [][HdrRgbNext]_vars

HdrRgbReturned == Returned /\ Emitter = "quantize_hdr_rgb3"

\* the locals of quantize_hdr_rgb3 at its return; mode is -1 in the flat representation
HdrRgbLocals == quantize_hdr_rgb3(color0, color1, quantization_level).locals

\* the two bytes quantize_hdr_rgb3 hands to the guards for the slots 4 and 5
HdrRgbHanded ==
    IF HdrRgbLocals.mode >= 0
    THEN << HdrRgbLocals.d0_lowbits, HdrRgbLocals.d1_lowbits >>
    ELSE SubSeq(HdrRgbLocals.idx, 5, 6)

AlphaLocals == quantize_hdr_alpha3(color0.a, color1.a, quantization_level).locals

AlphaFlatReturned ==
    Returned /\ Emitter = "quantize_hdr_rgb_alpha3" /\ AlphaLocals.i = -1

\* val0, val1 of the flat encoding
AlphaFlatVal(c) == (AlphaIn(c) + 256) \div 512

\* the seven-bit payloads of v6 and v7
AlphaFlatPayloads == << LowBits(AlphaLocals.v6, 7), LowBits(AlphaLocals.v7, 7) >>

AlphaFlatBytes ==
    /\ AlphaLocals.v6 \in 128 .. 255
    /\ AlphaLocals.v7 \in 128 .. 255
    /\ output[6] = Quant(quantization_level, AlphaLocals.v6)
    /\ output[7] = Quant(quantization_level, AlphaLocals.v7)

\* C24: in the flat encoding of quantize_hdr_alpha3, for every alpha in [0,65535],
\* (ialpha + 256) >> 9 fits in seven bits, so that v6 and v7 lie in [0x80,0xFF] with
\* their low seven bits equal to (ialpha + 256) >> 9, and the larger of the two alphas
\* never has the smaller seven-bit payload.
AlphaFlatFits ==
    AlphaFlatReturned =>
        /\ AlphaFlatVal(color0) < 128
        /\ AlphaFlatVal(color1) < 128
        /\ AlphaFlatBytes
        /\ AlphaFlatPayloads = << AlphaFlatVal(color0), AlphaFlatVal(color1) >>
        /\ color0.a <= color1.a => AlphaFlatPayloads[1] <= AlphaFlatPayloads[2]
        /\ color1.a <= color0.a => AlphaFlatPayloads[2] <= AlphaFlatPayloads[1]

\* v6 and v7 lie in [0x80,0xFF] and carry (ialpha + 256) >> 9 modulo 128, which is 128
\* exactly for the alphas clamped to 65280
AlphaFlatWraps ==
    AlphaFlatReturned =>
        /\ AlphaFlatBytes
        /\ AlphaFlatPayloads = << AlphaFlatVal(color0) % 128, AlphaFlatVal(color1) % 128 >>
        /\ \A c \in { color0, color1 } :
               /\ AlphaFlatVal(c) <= 128
               /\ AlphaFlatVal(c) = 128 <=> c.a >= 65280

\* alpha0 = 65535 against alpha1 = 33000 at the level that keeps every byte: v6 is 0x80,
\* payload 0, below the payload 64 of v7
AlphaFlatOverflows ==
    /\ AlphaFlatReturned
    /\ quantization_level = 20
    /\ color0.a = 65535
    /\ color1.a = 33000
    /\ AlphaLocals.v6 = 128
    /\ output[6] = 128
    /\ AlphaFlatPayloads = << 0, 64 >>

(***************************************************************************)
(* The HDR luminance encoders on grey endpoint pairs: luminances that      *)
(* share a step of 256, neighbouring steps, and both ends of the range.    *)
(***************************************************************************)
HdrLuminances == { 0, 100, 200, 300, 1000, 5000, 20000, 20100, 33000, 65300, 65535 }

HdrLuminanceInit ==
    /\ color_quantization_tables \in { QuantTables[up] : up \in BOOLEAN }
    /\ color_unquantization_tables = UnquantTables
    /\ pc = "pack_color_endpoints"
    /\ format \in { FMT_HDR_LUMINANCE_SMALL_RANGE, FMT_HDR_LUMINANCE_LARGE_RANGE }
    /\ quantization_level \in Levels
    /\ color0 \in { float4(l, l, l, 0) : l \in HdrLuminances }
    /\ color1 \in { float4(l, l, l, 0) : l \in HdrLuminances }
    /\ rgbs_color = ScalePalette[1]
    /\ rgbo_color = OffsetPalette[1]
    /\ output = [slot \in 0 .. 7 |-> Stale(slot)]
    /\ retval = NoTag
    /\ written = {}
    /\ reads = {}
    /\ tried = << >>
    /\ guard = GuardCall("idle", 0)
    /\ loop = NoLoop
    /\ other = NoCaller

HdrLuminanceNext == Enter \/ TryHdrLuminanceSmallRange \/ QuantizeHdrLuminanceLargeRange

HdrLuminanceSpec == HdrLuminanceInit /\ [][HdrLuminanceNext]_vars

LargeRangeReturned == Returned /\ Emitter = "quantize_hdr_luminance_large_range3"

\* the candidate quantize_hdr_luminance_large_range3 chose: upper, v0, v1
LargeRangeLocals ==
    quantize_hdr_luminance_large_range3(color0, color1, quantization_level).locals

\* C25: for all luminances in [0,65535] and every level, the slots 0 and 1 written by
\* quantize_hdr_luminance_large_range3 decode to d0 <= d1 when the 'upper' candidate is
\* emitted and to d0 > d1 when the 'lower' candidate is emitted.
LargeRangeOrder ==
    LargeRangeReturned =>
        IF LargeRangeLocals.upper THEN Decoded(0) <= Decoded(1) ELSE Decoded(0) > Decoded(1)

\* the bytes before the tables are ordered as the candidate says, and the tables keep
\* the order but not its strictness: the slots hold the codewords of v0 and v1, which
\* decode to d0 <= d1 for 'upper' and to d0 >= d1 for 'lower', and to d0 > d1 for
\* 'lower' at the level that keeps every byte
LargeRangeWeakOrder ==
    LargeRangeReturned =>
        /\ output[0] = Quant(quantization_level, LargeRangeLocals.v0)
        /\ output[1] = Quant(quantization_level, LargeRangeLocals.v1)
        /\ IF LargeRangeLocals.upper
           THEN LargeRangeLocals.v0 <= LargeRangeLocals.v1 /\ Decoded(0) <= Decoded(1)
           ELSE /\ LargeRangeLocals.v0 > LargeRangeLocals.v1
                /\ Decoded(0) >= Decoded(1)
                /\ quantization_level = 20 => Decoded(0) > Decoded(1)

\* the 'lower' candidate v0 = 20, v1 = 0 for the luminances 100 and 5000 at level 0:
\* both slots decode to 0
LargeRangeLowerCollapses ==
    /\ LargeRangeReturned
    /\ quantization_level = 0
    /\ color0 = float4(100, 100, 100, 0)
    /\ color1 = float4(5000, 5000, 5000, 0)
    /\ ~LargeRangeLocals.upper
    /\ LargeRangeLocals.v0 = 20
    /\ LargeRangeLocals.v1 = 0
    /\ Decoded(0) = 0
    /\ Decoded(1) = 0

(***************************************************************************)
(* The returned vector against the successful candidate run by itself.     *)
(***************************************************************************)
\* what the candidate named attempt does when it is called on the arguments of the state
candidate_alone(attempt) ==
    LET L == quantization_level
    IN CASE attempt = "try_quantize_rgb_delta_blue_contract" ->
                try_quantize_rgb_delta_blue_contract(color0, color1, L)
         [] attempt = "try_quantize_rgb_delta" -> try_quantize_rgb_delta(color0, color1, L)
         [] attempt = "try_quantize_rgb_blue_contract" ->
                try_quantize_rgb_blue_contract(color0, color1, L)
         [] attempt = "quantize_rgb" -> quantize_rgb(color0, color1, L)
         [] attempt = "try_quantize_rgba_delta_blue_contract" ->
                try_quantize_rgba_delta_blue_contract(color0, color1, L)
         [] attempt = "try_quantize_rgba_delta" -> try_quantize_rgba_delta(color0, color1, L)
         [] attempt = "try_quantize_rgba_blue_contract" ->
                try_quantize_rgba_blue_contract(color0, color1, L)
         [] attempt = "quantize_rgba" -> quantize_rgba(color0, color1, L)
         [] attempt = "quantize_rgbs_new" -> quantize_rgbs_new(rgbs_color, L)
         [] attempt = "quantize_hdr_rgbo3" -> quantize_hdr_rgbo3(rgbo_color, L)
         [] attempt = "quantize_hdr_rgb3" -> quantize_hdr_rgb3(color0, color1, L)
         [] attempt = "quantize_rgbs_alpha_new" ->
                quantize_rgbs_alpha_new(color0, color1, rgbs_color, L)
         [] attempt = "try_quantize_hdr_luminance_small_range3" ->
                try_quantize_hdr_luminance_small_range3(color0, color1, L)
         [] attempt = "quantize_hdr_luminance_large_range3" ->
                quantize_hdr_luminance_large_range3(color0, color1, L)
         [] attempt = "quantize_luminance" -> quantize_luminance(color0, color1, L)
         [] attempt = "try_quantize_luminance_alpha_delta" ->
                try_quantize_luminance_alpha_delta(color0, color1, L)
         [] attempt = "quantize_luminance_alpha" -> quantize_luminance_alpha(color0, color1, L)
         [] attempt = "quantize_hdr_rgb_ldr_alpha3" ->
                quantize_hdr_rgb_ldr_alpha3(color0, color1, L)
         [] OTHER -> quantize_hdr_rgb_alpha3(color0, color1, L)

\* the slots of the returned vector
ReturnedVector == 0 .. (vector_length(retval) - 1)

\* C26: the vector pack_color_endpoints leaves in the slots [0, len) is the vector the
\* finally successful candidate writes by itself into a fresh buffer: no slot value
\* written by an earlier failed candidate survives.
NoEarlierWriteSurvives ==
    Returned =>
        LET alone == candidate_alone(Emitter)
        IN /\ alone.ok
           /\ ReturnedVector \subseteq DOMAIN alone.w
           /\ \A slot \in ReturnedVector : output[slot] = alone.w[slot]

\* an RGBA request answered by its third or fourth candidate, after its first candidate
\* failed and left in slot 6 a codeword that is not the one returned
NoEarlierWriteSurvivesWitness ==
    /\ Returned
    /\ format = FMT_RGBA
    /\ Len(tried) >= 3
    /\ ~tried[1].ok
    /\ LET earlier == candidate_alone(tried[1].attempt)
       IN 6 \in DOMAIN earlier.w /\ earlier.w[6] # output[6]

====
